---------------------------- MODULE Spec2Model ----------------------------
(***************************************************************************)
(* Chord / melody extraction pipeline of chord-melody-extractor.           *)
(*                                                                         *)
(* Streaming side (TypeScript): AudioProcessor, ChromaWorkerClient, the    *)
(* chroma worker, ChordSmoother, KeyDetector and TempoDetector.            *)
(*                                                                         *)
(* Batch side: quantizeSegmentsToBeats and processFile's quantisation.      *)
(* iOS side (Swift): MelodyExtractor, FeatureExtractor, ChordDetector.     *)
(*                                                                         *)
(* Units.  Stream timestamps are in tenths of a second (0.5 s = 5), chord  *)
(* confidences in thousandths (0.3 = 300), note and beat times in          *)
(* milliseconds.                                                           *)
(***************************************************************************)
EXTENDS Integers, Sequences, FiniteSets, TLC

(***************************************************************************)
(* Bounds of the streaming model.                                          *)
(***************************************************************************)
MaxFrames == 4

\* media.currentTime advances by one of these between two audio callbacks
TimeSteps == {6}

\* chord matches matchChordToChroma can return: the 'N/C' initial value with
\* confidence 0, or a template name with a positive confidence
ChordNames == {"X", "Y"}
Confidences == {900}
NoChord == [name |-> "N/C", confidence |-> 0]
Matches == {NoChord} \cup [name : ChordNames, confidence : Confidences]

\* config.smoothingStrength times 10 (0.5 unless updateConfig changes it): the
\* ChordSmoother of startStream holds this many observations
SmoothingStrengthTenths == 2

(***************************************************************************)
(* Program constants.                                                      *)
(***************************************************************************)
ConfidenceThreshold == 300     \* ChordSmoother confidenceThreshold 0.3
ChordReportThreshold == 300    \* processAudioFrame: confidence > 0.3
MinSegmentDuration == 5        \* segments are emitted when longer than 0.5 s
InitialSegmentLength == 1      \* endTime: timestamp + 0.1
ReportInterval == 20           \* key/tempo report every 2.0 s
HistorySize == 20              \* KeyDetector.historySize

VARIABLES
  \* AudioProcessor
  isStreaming, lastChord, lastSegmentTime, currentSegment,
  \* ChordSmoother.buffer, KeyDetector.chromaHistory, and the frames fed to
  \* TempoDetector.addAudioFrame (the detector's state is a function of them)
  buffer, chromaHistory, tempoFrames,
  \* whether processAudioFrame, the last time it ran past its await in this
  \* stream, called callbacks.onChordDetected
  chordNotified,
  \* ChromaWorkerClient: worker (FALSE is null), callbacks Map in insertion
  \* order, callbackId, the pending setTimeout handles in creation order, and
  \* the messages posted to the worker that it has not answered yet
  worker, callbacks, callbackId, timers, inbox,
  \* the processAudioFrame invocations so far, the media element's clock, and
  \* the segments handed to callbacks.onSegmentAdded
  calls, mediaTime, delivered

streamVars == <<isStreaming, lastChord, lastSegmentTime, currentSegment,
                buffer, chromaHistory, tempoFrames, chordNotified,
                worker, callbacks, callbackId, timers, inbox,
                calls, mediaTime, delivered>>

VARIABLES
  \* MelodyExtractor: the pitch track, and the note lists after
  \* segmentIntoNotes, the duration filter, mergeCloseNotes and removeOutliers
  pitchTrack, noteStage, notes, filteredNotes, mergedNotes, refinedNotes

noteVars == <<pitchTrack, noteStage, notes, filteredNotes, mergedNotes,
              refinedNotes>>

VARIABLES
  \* quantizeSegmentsToBeats and processFile's quantize step: the segments,
  \* the BeatInfo and the mode handed in, the blocks returned, the blocks
  \* returned for these blocks, and processFile's quantized segments
  segments, info, mode, quantStage, blocks, requantized, fileSegments

quantVars == <<segments, info, mode, quantStage, blocks, requantized,
               fileSegments>>

VARIABLES
  \* the Swift entry points called on their own: the number of samples
  \* handed in, and what came of the call
  audioCount, outcome,
  \* the addChromaFrame calls made on a KeyDetector of its own
  framesAdded

extractVars == <<audioCount, outcome, framesAdded>>

VARIABLES
  \* ChordDetector.detectChords: the number of chroma frames, the beats, what
  \* findBestChord returns for each beat's averaged chroma, and the chords
  \* after analyzeBeatSynchronousChords, mergeConsecutiveChords and
  \* quantizeChordDurations
  chromaCount, beats, bestChords, chordStage, beatChords, mergedChords,
  quantizedChords

chordVars == <<chromaCount, beats, bestChords, chordStage, beatChords,
               mergedChords, quantizedChords>>

VARIABLES
  \* chord matching on one chroma vector (ChordDetector.analyzeChromaFrame
  \* and findBestChord in Swift, matchChordToChroma in TypeScript): the
  \* chroma, the key, the vocabulary level, and what each returned
  chroma, key, level, matchStage, candidates, bestFound, bestMatch

matchVars == <<chroma, key, level, matchStage, candidates, bestFound,
               bestMatch>>

VARIABLES
  \* TempoDetector: onsetEvents, lastEnergy, the timestamp of the last frame
  \* and the number of frames handed in, and the BeatInfo getBeatInfo
  \* returned since the last frame or reset
  onsetEvents, lastEnergy, tempoTime, tempoCount, beatInfo

tempoVars == <<onsetEvents, lastEnergy, tempoTime, tempoCount, beatInfo>>

VARIABLES
  \* timeToBarBeat: the time and the BeatInfo handed in, and what it returned
  barTime, barInfo, barStage, barBeat

barVars == <<barTime, barInfo, barStage, barBeat>>

VARIABLES
  \* a ChordSmoother of its own: config.smoothingStrength in hundredths, the
  \* smoother's bufferSize and buffer, the addObservation calls made on it,
  \* and the chord its last call returned
  smoothingStrength, bufferSize, smoothBuffer, observations, smoothed

smoothVars == <<smoothingStrength, bufferSize, smoothBuffer, observations,
               smoothed>>

VARIABLES
  \* key estimation from one chroma vector
  keyChroma, keyStage, bestKey, bestConfidence

keyVars == <<keyChroma, keyStage, bestKey, bestConfidence>>

VARIABLES
  \* the Viterbi decoder's vocabulary and transition matrix
  chordNames, transitionMatrix

viterbiVars == <<chordNames, transitionMatrix>>

\* the components that analyse one input on their own
analysisVars == <<matchVars, tempoVars, barVars, smoothVars, keyVars,
                viterbiVars>>

vars == <<streamVars, noteVars, quantVars, extractVars, chordVars,
          analysisVars>>

\* what the steps of one component leave alone
StreamOnly ==
  UNCHANGED <<noteVars, quantVars, extractVars, chordVars, analysisVars>>

NotesOnly ==
  UNCHANGED <<streamVars, quantVars, extractVars, chordVars, analysisVars>>

QuantOnly ==
  UNCHANGED <<streamVars, noteVars, extractVars, chordVars, analysisVars>>

ChordsOnly ==
  UNCHANGED <<streamVars, noteVars, quantVars, extractVars, analysisVars>>

MatchOnly ==
  UNCHANGED <<streamVars, noteVars, quantVars, extractVars, chordVars,
              tempoVars, barVars, smoothVars, keyVars, viterbiVars>>

TempoOnly ==
  UNCHANGED <<streamVars, noteVars, quantVars, extractVars, chordVars,
              matchVars, barVars, smoothVars, keyVars, viterbiVars>>

BarOnly ==
  UNCHANGED <<streamVars, noteVars, quantVars, extractVars, chordVars,
              matchVars, tempoVars, smoothVars, keyVars, viterbiVars>>

SmoothOnly ==
  UNCHANGED <<streamVars, noteVars, quantVars, extractVars, chordVars,
              matchVars, tempoVars, barVars, keyVars, viterbiVars>>

KeyOnly ==
  UNCHANGED <<streamVars, noteVars, quantVars, extractVars, chordVars,
              matchVars, tempoVars, barVars, smoothVars, viterbiVars>>

ViterbiOnly ==
  UNCHANGED <<streamVars, noteVars, quantVars, extractVars, chordVars,
              matchVars, tempoVars, barVars, smoothVars, keyVars>>

\* a component nothing has been handed to
NotesIdle ==
  /\ pitchTrack = <<>>
  /\ noteStage = "idle"
  /\ notes = <<>>
  /\ filteredNotes = <<>>
  /\ mergedNotes = <<>>
  /\ refinedNotes = <<>>

QuantIdle ==
  /\ segments = <<>>
  /\ info = [bpm |-> 120, confidence |-> 0,
             timeSignature |-> [numerator |-> 4, denominator |-> 4]]
  /\ mode = "beat"
  /\ quantStage = "idle"
  /\ blocks = <<>>
  /\ requantized = <<>>
  /\ fileSegments = <<>>

NoOutcome == [op |-> "none", raised |-> FALSE, value |-> <<>>]

ExtractIdle ==
  /\ audioCount = 0
  /\ outcome = NoOutcome
  /\ framesAdded = 0

ChordsIdle ==
  /\ chromaCount = 0
  /\ beats = <<>>
  /\ bestChords = <<>>
  /\ chordStage = "idle"
  /\ beatChords = <<>>
  /\ mergedChords = <<>>
  /\ quantizedChords = <<>>

NoKey == [tonic |-> "", mode |-> ""]

NoCandidate == [root |-> "", quality |-> "", score |-> 0]

MatchIdle ==
  /\ chroma = [i \in 0..11 |-> 0]
  /\ key = NoKey
  /\ level = "basic"
  /\ matchStage = "idle"
  /\ candidates = <<>>
  /\ bestFound = NoCandidate
  /\ bestMatch = NoChord

\* no BeatInfo has been asked for
NoBeatInfo ==
  [bpm |-> 0, confidence |-> 0, downbeatOffset |-> 0,
   timeSignature |-> [numerator |-> 0, denominator |-> 0]]

TempoIdle ==
  /\ onsetEvents = <<>>
  /\ lastEnergy = 0
  /\ tempoTime = 0
  /\ tempoCount = 0
  /\ beatInfo = NoBeatInfo

NoBarBeat == [bar |-> 0, beat |-> 0, beatFloat |-> 0]

BarIdle ==
  /\ barTime = 0
  /\ barInfo = NoBeatInfo
  /\ barStage = "idle"
  /\ barBeat = NoBarBeat

SmoothIdle ==
  /\ smoothingStrength = 0
  /\ bufferSize = 0
  /\ smoothBuffer = <<>>
  /\ observations = 0
  /\ smoothed = ""

\* a correlation n / sqrt(d) is kept as its numerator and the square of its
\* denominator; -1 is what chromaToKey starts from
MinusOne == [n |-> -1, d |-> 1]

KeyIdle ==
  /\ keyChroma = [i \in 0..11 |-> 0]
  /\ keyStage = "idle"
  /\ bestKey = ""
  /\ bestConfidence = MinusOne

ViterbiIdle ==
  /\ chordNames = <<>>
  /\ transitionMatrix = <<>>

AnalysisIdle ==
  /\ MatchIdle
  /\ TempoIdle
  /\ BarIdle
  /\ SmoothIdle
  /\ KeyIdle
  /\ ViterbiIdle

\* everything but the named component is idle
OthersIdle == ExtractIdle /\ ChordsIdle /\ AnalysisIdle

--------------------------------------------------------------------------
(***************************************************************************)
(* Helpers on sequences.                                                   *)
(***************************************************************************)
Last(s) == s[Len(s)]

Max(a, b) == IF a >= b THEN a ELSE b

Min(a, b) == IF a <= b THEN a ELSE b

Abs(a) == IF a >= 0 THEN a ELSE -a

RECURSIVE SumSeq(_)
SumSeq(s) == IF s = <<>> THEN 0 ELSE Head(s) + SumSeq(Tail(s))

\* a push that never drops a frame
PushUncapped(s, x, cap) == Append(s, x)

\* Array.push followed by shift() when the array is longer than cap
PushCapped(s, x, cap) ==
  LET t == Append(s, x) IN IF Len(t) > cap THEN Tail(t) ELSE t

\* the sequence without the entries whose id is i (Map.delete / clearTimeout)
WithoutId(s, i) == SelectSeq(s, LAMBDA e : e.id # i)

\* ascending insertion of x into the sorted sequence s
RECURSIVE InsertSorted(_, _)
InsertSorted(s, x) ==
  IF s = <<>> THEN <<x>>
  ELSE IF x <= Head(s) THEN <<x>> \o s
  ELSE <<Head(s)>> \o InsertSorted(Tail(s), x)

RECURSIVE SortAsc(_)
SortAsc(s) == IF s = <<>> THEN <<>> ELSE InsertSorted(SortAsc(Tail(s)), Head(s))

--------------------------------------------------------------------------
(***************************************************************************)
(* utils/math.ts and ChordSmoother (smoothing.ts).                         *)
(***************************************************************************)
\* median(arr): the middle element, or the mean of the two middle ones
median(arr) ==
  LET sorted == SortAsc(arr)
      mid == Len(sorted) \div 2
  IN IF Len(sorted) % 2 = 0 THEN (sorted[mid] + sorted[mid + 1]) \div 2
     ELSE sorted[mid + 1]

\* new ChordSmoother(Math.ceil(smoothingStrength * 10), 0.3)
BufferSize == SmoothingStrengthTenths

\* the keys of the chordCounts Map in insertion order: the buffer's names in
\* order of first occurrence
RECURSIVE NamesInOrder(_, _)
NamesInOrder(buf, seen) ==
  IF buf = <<>> THEN <<>>
  ELSE IF Head(buf).name \in seen THEN NamesInOrder(Tail(buf), seen)
  ELSE <<Head(buf).name>> \o NamesInOrder(Tail(buf), seen \cup {Head(buf).name})

CountOf(buf, n) == Len(SelectSeq(buf, LAMBDA m : m.name = n))

WeightOf(buf, n) ==
  LET ms == SelectSeq(buf, LAMBDA m : m.name = n)
  IN SumSeq([i \in 1..Len(ms) |-> ms[i].confidence])

\* the loop over chordCounts.entries(): best is [chord, score]; score is
\* count * avgConfidence, that is the summed confidence of the label
RECURSIVE BestChordLoop(_, _, _)
BestChordLoop(buf, names, best) ==
  IF names = <<>> THEN best
  ELSE LET chord == Head(names)
           count == CountOf(buf, chord)
           score == WeightOf(buf, chord)
           take == /\ score > best.score
                   /\ score > ConfidenceThreshold * count
       IN BestChordLoop(buf, Tail(names),
                        IF take THEN [chord |-> chord, score |-> score] ELSE best)

\* a smoother that answers with the label of the latest observation
getLatestChord(buf) == IF buf = <<>> THEN "N/C" ELSE Last(buf).name

getSmoothedChord(buf) ==
  IF buf = <<>> THEN "N/C"
  ELSE BestChordLoop(buf, NamesInOrder(buf, {}),
                     [chord |-> "N/C", score |-> 0]).chord

\* in tenths: 1.2 when the last three names agree, 1.1 when two of them do
getConsistencyBonus(buf) ==
  IF Len(buf) < 3 THEN 10
  ELSE LET uniqueChords ==
             Cardinality({buf[i].name : i \in (Len(buf) - 2)..Len(buf)})
       IN IF uniqueChords = 1 THEN 12
          ELSE IF uniqueChords = 2 THEN 11
          ELSE 10

getSmoothedConfidence(buf) ==
  IF buf = <<>> THEN 0
  ELSE LET medianConfidence == median([i \in 1..Len(buf) |-> buf[i].confidence])
       IN Min(1000, (medianConfidence * getConsistencyBonus(buf)) \div 10)

\* the buffer after addObservation's push and shift
addObservation(buf, observation) == PushCapped(buf, observation, BufferSize)

--------------------------------------------------------------------------
(***************************************************************************)
(* AudioProcessor (index.ts).                                              *)
(***************************************************************************)
NoSegment == [chord |-> "null", startTime |-> 0, endTime |-> 0, confidence |-> 0]

SegmentDuration(s) == s.endTime - s.startTime

\* the guard in front of both onSegmentAdded calls
LongEnough(s) == s # NoSegment /\ SegmentDuration(s) > MinSegmentDuration

\* handleChordSegment(chord, confidence, timestamp)
handleChordSegment(chord, confidence, timestamp) ==
  IF chord = lastChord
  THEN /\ currentSegment' =
            IF currentSegment # NoSegment
            THEN [currentSegment EXCEPT
                    !.endTime = timestamp,
                    !.confidence = Max(currentSegment.confidence, confidence)]
            ELSE currentSegment
       /\ UNCHANGED <<lastChord, delivered>>
  ELSE /\ delivered' = IF LongEnough(currentSegment)
                       THEN Append(delivered, currentSegment)
                       ELSE delivered
       /\ currentSegment' = [chord |-> chord, startTime |-> timestamp,
                             endTime |-> timestamp + InitialSegmentLength,
                             confidence |-> confidence]
       /\ lastChord' = chord

\* processAudioFrame after its await: call k resumes with the chroma of frame
\* src (the worker's reply, or its own frame on the fallback paths); match is
\* what matchChordToChroma returns for that chroma and the current key prior
Resume(k, src, match) ==
  LET timestamp == calls'[k].ts
      newBuffer == addObservation(buffer, [name |-> match.name,
                                           confidence |-> match.confidence,
                                           call |-> k])
      chord == getSmoothedChord(newBuffer)
      confidence == getSmoothedConfidence(newBuffer)
  IN /\ chromaHistory' = PushCapped(chromaHistory, [call |-> k, chroma |-> src],
                                    HistorySize)
     /\ tempoFrames' = Append(tempoFrames, k)
     /\ chordNotified' = (confidence > ChordReportThreshold)
     /\ buffer' = newBuffer
     /\ IF confidence > ChordReportThreshold
        THEN handleChordSegment(chord, confidence, timestamp)
        ELSE UNCHANGED <<lastChord, currentSegment, delivered>>
     /\ lastSegmentTime' = IF timestamp - lastSegmentTime > ReportInterval
                           THEN timestamp ELSE lastSegmentTime

Resolved(k) == [calls EXCEPT ![k].st = "resolved"]

\* startStream()
StartStream ==
  /\ isStreaming' = TRUE
  /\ lastChord' = ""
  /\ lastSegmentTime' = 0
  /\ currentSegment' = NoSegment
  /\ buffer' = <<>>
  /\ chromaHistory' = <<>>
  /\ tempoFrames' = <<>>
  /\ chordNotified' = FALSE
  /\ UNCHANGED <<worker, callbacks, callbackId, timers, inbox, calls,
                 mediaTime, delivered>>
  /\ StreamOnly

\* stopStream()
StopStream ==
  /\ isStreaming' = FALSE
  /\ delivered' = IF LongEnough(currentSegment)
                  THEN Append(delivered, currentSegment)
                  ELSE delivered
  /\ currentSegment' = NoSegment
  /\ UNCHANGED <<lastChord, lastSegmentTime, buffer, chromaHistory, tempoFrames,
                 chordNotified,
                 worker, callbacks, callbackId, timers, inbox, calls, mediaTime>>
  /\ StreamOnly

\* processor.onaudioprocess -> processAudioFrame -> chromaWorker.processFrame,
\* up to the await.  Without a worker, or when postMessage throws, the promise
\* is resolved at once with processFrameSync's result and the rest of
\* processAudioFrame runs before any other event.
OnAudioProcess(step, postOk, match) ==
  /\ isStreaming
  /\ Len(calls) < MaxFrames
  /\ StreamOnly
  /\ LET k == Len(calls) + 1
         timestamp == mediaTime + step
     IN /\ mediaTime' = timestamp
        /\ UNCHANGED <<isStreaming, worker>>
        /\ IF worker /\ postOk
           THEN /\ calls' = Append(calls, [ts |-> timestamp, st |-> "awaiting"])
                /\ callbackId' = callbackId + 1
                /\ callbacks' = Append(callbacks, [id |-> callbackId, call |-> k])
                /\ timers' = Append(timers, [id |-> callbackId, call |-> k])
                /\ inbox' = Append(inbox, k)
                /\ match = NoChord
                /\ UNCHANGED <<lastChord, lastSegmentTime, currentSegment, buffer,
                               chromaHistory, tempoFrames,
                 chordNotified, delivered>>
           ELSE /\ calls' = Append(calls, [ts |-> timestamp, st |-> "resolved"])
                /\ callbackId' = IF worker THEN callbackId + 1 ELSE callbackId
                /\ UNCHANGED <<callbacks, timers, inbox>>
                /\ Resume(k, k, match)

\* the worker answers the oldest message it holds and worker.onmessage runs:
\* an error reply is logged and dropped; any other reply goes to the first
\* callback of the Map, which clears its timeout and resolves its promise
WorkerReply(isError, match) ==
  /\ worker
  /\ inbox # <<>>
  /\ StreamOnly
  /\ inbox' = Tail(inbox)
  /\ UNCHANGED <<isStreaming, worker, callbackId, mediaTime>>
  /\ IF isError \/ callbacks = <<>>
     THEN /\ match = NoChord
          /\ UNCHANGED <<callbacks, timers, calls, lastChord, lastSegmentTime,
                         currentSegment, buffer, chromaHistory, tempoFrames,
                 chordNotified,
                         delivered>>
     ELSE LET first == Head(callbacks)
          IN /\ callbacks' = Tail(callbacks)
             /\ timers' = WithoutId(timers, first.id)
             /\ calls' = Resolved(first.call)
             /\ Resume(first.call, Head(inbox), match)

\* the 1 s timeout of the oldest request that still has one: it deletes the
\* request's callback and resolves its promise with processFrameSync's result
Timeout(match) ==
  /\ timers # <<>>
  /\ LET t == Head(timers)
     IN /\ timers' = Tail(timers)
        /\ callbacks' = WithoutId(callbacks, t.id)
        /\ calls' = Resolved(t.call)
        /\ Resume(t.call, t.call, match)
  /\ UNCHANGED <<isStreaming, worker, callbackId, inbox, mediaTime>>
  /\ StreamOnly

\* dispose() -> chromaWorker.terminate()
Terminate ==
  /\ worker
  /\ worker' = FALSE
  /\ callbacks' = <<>>
  /\ inbox' = <<>>
  /\ UNCHANGED <<isStreaming, lastChord, lastSegmentTime, currentSegment, buffer,
                 chromaHistory, tempoFrames,
                 chordNotified, callbackId, timers, calls,
                 mediaTime, delivered>>
  /\ StreamOnly

StreamInit ==
  /\ isStreaming = FALSE
  /\ lastChord = ""
  /\ lastSegmentTime = 0
  /\ currentSegment = NoSegment
  /\ buffer = <<>>
  /\ chromaHistory = <<>>
  /\ tempoFrames = <<>>
  /\ chordNotified = FALSE
  /\ worker = TRUE
  /\ callbacks = <<>>
  /\ callbackId = 0
  /\ timers = <<>>
  /\ inbox = <<>>
  /\ calls = <<>>
  /\ mediaTime = 0
  /\ delivered = <<>>

Init == StreamInit /\ NotesIdle /\ QuantIdle /\ OthersIdle

Next ==
  \/ StartStream
  \/ StopStream
  \/ \E step \in TimeSteps, postOk \in BOOLEAN, match \in Matches :
       OnAudioProcess(step, postOk, match)
  \/ \E isError \in BOOLEAN, match \in Matches : WorkerReply(isError, match)
  \/ \E match \in Matches : Timeout(match)
  \/ Terminate

Spec == Init /\ [][Next]_vars

--------------------------------------------------------------------------
(***************************************************************************)
(* Claims about the streaming side.                                        *)
(***************************************************************************)
Awaiting == {k \in 1..Len(calls) : calls[k].st = "awaiting"}

IsIncreasing(s) == \A i \in 1..(Len(s) - 1) : s[i] < s[i + 1]

CallsOf(s) == [i \in 1..Len(s) |-> s[i].call]

\* C1: whenever stopStream runs while a segment is open, that segment is
\* handed to onSegmentAdded before currentSegment is cleared, whatever its
\* duration.
C1_StopFlushesOpenSegment ==
  [][(StopStream /\ currentSegment # NoSegment)
       => delivered' = Append(delivered, currentSegment)]_vars

\* C2: the key history, the tempo detector and the chord smoother are updated
\* in submission order: the calls whose updates they hold appear in the order
\* in which processAudioFrame was invoked.
C2_UpdatesInSubmissionOrder ==
  /\ IsIncreasing(tempoFrames)
  /\ IsIncreasing(CallsOf(chromaHistory))
  /\ IsIncreasing(CallsOf(buffer))

\* the code names no queue capacity: the largest one the frames of a run
\* can exceed
QueueCapacity == MaxFrames - 1

\* C3: the frames accepted and not yet processed never exceed a fixed queue
\* capacity: a frame arriving at capacity is dropped, not queued.
C3_PendingFramesBounded == Cardinality(Awaiting) <= QueueCapacity

\* C6: the segments handed to onSegmentAdded are ordered by start time, do
\* not overlap, and each ends after it starts.
C6_DeliveredOrderedDisjoint ==
  /\ \A i \in 1..Len(delivered) : delivered[i].endTime > delivered[i].startTime
  /\ \A i \in 1..(Len(delivered) - 1) :
       /\ delivered[i].startTime <= delivered[i + 1].startTime
       /\ delivered[i].endTime <= delivered[i + 1].startTime

--------------------------------------------------------------------------
(***************************************************************************)
(* MelodyExtractor (Swift): note segmentation and refinement.  Times are   *)
(* in milliseconds.  A note is [start, end, midi]; its confidence and      *)
(* velocity (the maximum over what is merged) decide nothing here and are  *)
(* left out.                                                               *)
(***************************************************************************)
MinNoteDuration == 80    \* minNoteDuration 0.08 s
MergeGap == 50           \* mergeCloseNotes: gap below 0.05 s
OutlierInterval == 12    \* removeOutliers: more than an octave

\* bounds of the pitch tracks and note lists drawn as inputs
MaxTrackLen == 6
MaxNotes == 3

FrameSteps == {10, 90}
Pitches == {60, 80}
NoteGaps == {20, 50, 100}
NoteDurations == {80, 120}
NotePitches == {60, 72, 80}

\* a PitchPoint of f0TrackToPitches: midi is nil (0 here) exactly when the
\* frame is unvoiced
PointShapes == [step : FrameSteps, midi : Pitches \cup {0}]

RECURSIVE LayoutTrack(_, _)
LayoutTrack(shapes, t) ==
  IF shapes = <<>> THEN <<>>
  ELSE LET time == t + Head(shapes).step
       IN <<[time |-> time, midi |-> Head(shapes).midi,
             voiced |-> Head(shapes).midi # 0]>>
          \o LayoutTrack(Tail(shapes), time)

NoteShapes == [gap : NoteGaps, dur : NoteDurations, midi : NotePitches]

RECURSIVE LayoutNotes(_, _)
LayoutNotes(shapes, t) ==
  IF shapes = <<>> THEN <<>>
  ELSE LET start == t + Head(shapes).gap
           end == start + Head(shapes).dur
       IN <<[start |-> start, end |-> end, midi |-> Head(shapes).midi]>>
          \o LayoutNotes(Tail(shapes), end)

SeqsUpTo(S, n) == UNION {[1..m -> S] : m \in 0..n}

Duration(note) == note.end - note.start

\* segmentIntoNotes: the loop over the pitch track; current is the optional
\* currentNote, <<>> for nil
RECURSIVE SegmentLoop(_, _, _)
SegmentLoop(track, acc, current) ==
  IF track = <<>> THEN acc \o current
  ELSE LET p == Head(track)
           fresh == [start |-> p.time, end |-> p.time, midi |-> p.midi]
       IN IF p.midi # 0 /\ p.voiced
          THEN IF current # <<>>
               THEN IF current[1].midi = p.midi
                    THEN SegmentLoop(Tail(track), acc,
                                     <<[current[1] EXCEPT !.end = p.time]>>)
                    ELSE SegmentLoop(Tail(track), Append(acc, current[1]),
                                     <<fresh>>)
               ELSE SegmentLoop(Tail(track), acc, <<fresh>>)
          ELSE SegmentLoop(Tail(track), acc \o current, <<>>)

\* a segmentation that loses the note still open when the track ends
segmentWithoutOpenNote(track) ==
  LET all == SegmentLoop(track, <<>>, <<>>)
  IN IF track # <<>> /\ Last(track).voiced
     THEN SubSeq(all, 1, Len(all) - 1)
     ELSE all

segmentIntoNotes(track) ==
  IF track = <<>> THEN <<>> ELSE SegmentLoop(track, <<>>, <<>>)

\* refineNotes' filter: $0.duration >= minNoteDuration
KeepsNoteMutant(note) == note.end >= MinNoteDuration

KeepsNote(note) == Duration(note) >= MinNoteDuration

FilterShort(ns) == SelectSeq(ns, KeepsNote)

\* mergeCloseNotes' test on the note being built and the next one
ShouldMergeMutant(current, next) ==
  current.midi = next.midi /\ next.start - current.end <= MergeGap

ShouldMerge(current, next) ==
  current.midi = next.midi /\ next.start - current.end < MergeGap

RECURSIVE MergeLoop(_, _, _)
MergeLoop(rest, merged, current) ==
  IF rest = <<>> THEN Append(merged, current)
  ELSE LET next == Head(rest)
       IN IF ShouldMerge(current, next)
          THEN MergeLoop(Tail(rest), merged, [current EXCEPT !.end = next.end])
          ELSE MergeLoop(Tail(rest), Append(merged, current), next)

mergeCloseNotes(ns) ==
  IF Len(ns) > 1 THEN MergeLoop(Tail(ns), <<>>, ns[1]) ELSE ns

\* a test that keeps an inner note only when both intervals are at most an
\* octave
KeepsInnerBoth(ns, i) ==
  /\ Abs(ns[i].midi - ns[i - 1].midi) <= OutlierInterval
  /\ Abs(ns[i + 1].midi - ns[i].midi) <= OutlierInterval

\* removeOutliers' test on an inner note: it is kept when one of the two
\* intervals to its neighbours is at most an octave
KeepsInner(ns, i) ==
  LET prevInterval == Abs(ns[i].midi - ns[i - 1].midi)
      nextInterval == Abs(ns[i + 1].midi - ns[i].midi)
  IN prevInterval <= OutlierInterval \/ nextInterval <= OutlierInterval

RECURSIVE OutlierLoop(_, _, _)
OutlierLoop(ns, i, cleaned) ==
  IF i > Len(ns) - 1 THEN Append(cleaned, Last(ns))
  ELSE OutlierLoop(ns, i + 1,
                   IF KeepsInner(ns, i) THEN Append(cleaned, ns[i]) ELSE cleaned)

removeOutliers(ns) ==
  IF Len(ns) > 2 THEN OutlierLoop(ns, 2, <<ns[1]>>) ELSE ns

\* extractMelody, step 3
SegmentIntoNotes ==
  /\ noteStage = "track"
  /\ noteStage' = "segmented"
  /\ notes' = segmentIntoNotes(pitchTrack)
  /\ UNCHANGED <<pitchTrack, filteredNotes, mergedNotes, refinedNotes>>
  /\ NotesOnly

\* extractMelody, step 4: refineNotes
RefineNotes ==
  /\ noteStage = "segmented"
  /\ noteStage' = "refined"
  /\ filteredNotes' = FilterShort(notes)
  /\ mergedNotes' = mergeCloseNotes(filteredNotes')
  /\ refinedNotes' = removeOutliers(mergedNotes')
  /\ UNCHANGED <<pitchTrack, notes>>
  /\ NotesOnly

\* the pitch track of an audio buffer
TrackInit ==
  /\ \E shapes \in SeqsUpTo(PointShapes, MaxTrackLen) :
       pitchTrack = LayoutTrack(shapes, 0)
  /\ noteStage = "track"
  /\ notes = <<>>
  /\ filteredNotes = <<>>
  /\ mergedNotes = <<>>
  /\ refinedNotes = <<>>

TrackNext == SegmentIntoNotes \/ RefineNotes

InitTrack == StreamInit /\ TrackInit /\ QuantIdle /\ OthersIdle

SpecTrack == InitTrack /\ [][TrackNext]_vars

\* mergeCloseNotes and removeOutliers on their own, on the lists refineNotes'
\* filter can hand them: ordered notes of at least the minimum duration with a
\* gap between them
MergeCloseNotes ==
  /\ noteStage = "filtered"
  /\ noteStage' = "merged"
  /\ mergedNotes' = mergeCloseNotes(filteredNotes)
  /\ UNCHANGED <<pitchTrack, notes, filteredNotes, refinedNotes>>
  /\ NotesOnly

RemoveOutliers ==
  /\ noteStage = "merged"
  /\ noteStage' = "refined"
  /\ refinedNotes' = removeOutliers(mergedNotes)
  /\ UNCHANGED <<pitchTrack, notes, filteredNotes, mergedNotes>>
  /\ NotesOnly

MergeInit ==
  /\ \E shapes \in SeqsUpTo(NoteShapes, MaxNotes) :
       filteredNotes = LayoutNotes(shapes, 0)
  /\ noteStage = "filtered"
  /\ pitchTrack = <<>>
  /\ notes = <<>>
  /\ mergedNotes = <<>>
  /\ refinedNotes = <<>>

MergeNext == MergeCloseNotes \/ RemoveOutliers

InitMerge == StreamInit /\ MergeInit /\ QuantIdle /\ OthersIdle

SpecMerge == InitMerge /\ [][MergeNext]_vars

--------------------------------------------------------------------------
(***************************************************************************)
(* Claims about the melody notes.                                          *)
(***************************************************************************)
\* C9: the notes refineNotes returns for the notes of segmentIntoNotes are
\* ordered by start, do not overlap (each ends no later than the next
\* starts), and each lasts at least the minimum of 80 ms.
C9_RefinedNotesOrderedLongEnough ==
  noteStage = "refined" =>
    /\ \A i \in 1..Len(refinedNotes) :
         Duration(refinedNotes[i]) >= MinNoteDuration
    /\ \A i \in 1..(Len(refinedNotes) - 1) :
         /\ refinedNotes[i].start <= refinedNotes[i + 1].start
         /\ refinedNotes[i].end <= refinedNotes[i + 1].start

\* a track whose refinement dropped a short note and returned two notes or
\* more
C9_Witness ==
  /\ noteStage = "refined"
  /\ Len(refinedNotes) >= 2
  /\ Len(filteredNotes) < Len(notes)

\* adjacent input notes i and i+1 end up in one output note
Joined(ns, i) ==
  ns[i].midi = ns[i + 1].midi /\ ns[i + 1].start - ns[i].end < MergeGap

\* where the output notes start in the input, and the k-th of these places
GroupStarts(ns) ==
  {i \in 1..Len(ns) : i = 1 \/ ~Joined(ns, i - 1)}

GroupStart(ns, k) ==
  CHOOSE i \in GroupStarts(ns) :
    Cardinality({j \in GroupStarts(ns) : j <= i}) = k

GroupEnd(ns, k) ==
  IF k = Cardinality(GroupStarts(ns)) THEN Len(ns) ELSE GroupStart(ns, k + 1) - 1

\* C10: mergeCloseNotes joins two consecutive notes exactly when they have
\* the same MIDI pitch and the later one starts less than 50 ms after the
\* end of the earlier one (merged or not); a merged note runs from the first
\* start to the last end.
C10_MergesExactlyCloseSamePitch ==
  noteStage = "merged" =>
    /\ Len(mergedNotes) = Cardinality(GroupStarts(filteredNotes))
    /\ \A k \in 1..Len(mergedNotes) :
         /\ mergedNotes[k].start = filteredNotes[GroupStart(filteredNotes, k)].start
         /\ mergedNotes[k].end = filteredNotes[GroupEnd(filteredNotes, k)].end
         /\ mergedNotes[k].midi = filteredNotes[GroupStart(filteredNotes, k)].midi

\* three notes of one pitch, 20 ms and then 100 ms apart: the first two are
\* merged, the third is not
C10_Witness ==
  /\ noteStage = "merged"
  /\ Len(filteredNotes) = 3
  /\ filteredNotes[1].midi = filteredNotes[2].midi
  /\ filteredNotes[2].midi = filteredNotes[3].midi
  /\ filteredNotes[2].start - filteredNotes[1].end = 20
  /\ filteredNotes[3].start - filteredNotes[2].end = 100
  /\ Len(mergedNotes) = 2
  /\ mergedNotes[1].end = filteredNotes[2].end

--------------------------------------------------------------------------
(***************************************************************************)
(* Beat quantization (TypeScript).  Times are in milliseconds, beat        *)
(* positions in half beats, so that every quantity of the code is an       *)
(* integer here.  The inputs lie on a 125 ms raster and the beat lengths   *)
(* are 250 or 500 ms: all of these are exact binary fractions of a second, *)
(* so the code's floating-point arithmetic is exact on them.               *)
(***************************************************************************)
MergeTolerance == 1      \* 1e-3 s

\* bound of the segment lists drawn as inputs
MaxSegments == 2

SegmentGaps == {0, 125}
SegmentLengths == {125, 500, 2000}
Labels == {"C", "G"}
SegmentConfidences == {500, 900}
Tempos == {120}
Numerators == {3, 4}
Denominators == {4, 8}
TempoConfidences == {0, 800}
Modes == {"beat", "half", "bar"}

BeatInfos ==
  [bpm : Tempos, confidence : TempoConfidences,
   timeSignature : [numerator : Numerators, denominator : Denominators]]

SegmentShapes ==
  [gap : SegmentGaps, len : SegmentLengths, label : Labels,
   confidence : SegmentConfidences]

RECURSIVE LayoutSegments(_, _)
LayoutSegments(shapes, t) ==
  IF shapes = <<>> THEN <<>>
  ELSE LET start == t + Head(shapes).gap
           end == start + Head(shapes).len
       IN <<[start |-> start, end |-> end, label |-> Head(shapes).label,
             confidence |-> Head(shapes).confidence]>>
          \o LayoutSegments(Tail(shapes), end)

\* Math.round(a / b) for a >= 0 and b > 0: floor(a / b + 0.5)
Round(a, b) == (2 * a + b) \div (2 * b)

\* quantizeSegmentsToBeats: beatSec
beatSec(i) == ((60000 \div Max(1, i.bpm)) * 4) \div i.timeSignature.denominator

\* quantizeSegmentsToBeats: step, in half beats
step(i, m) ==
  IF m = "bar" THEN 2 * i.timeSignature.numerator
  ELSE IF m = "half" THEN 1
  ELSE 2

\* toBeat(t) = Math.round((t / beatSec) / step) * step, in half beats
toBeat(t, i, m) == Round(2 * t, beatSec(i) * step(i, m)) * step(i, m)

startBeat(s, i, m) == Max(0, toBeat(s.start, i, m))

endBeatMutant(s, i, m) == startBeat(s, i, m) + step(i, m)

endBeat(s, i, m) == Max(startBeat(s, i, m) + step(i, m), toBeat(s.end, i, m))

\* the block pushed for one segment
Block(s, i, m) ==
  [label |-> s.label,
   startSec |-> (startBeat(s, i, m) * beatSec(i)) \div 2,
   endSec |-> (endBeat(s, i, m) * beatSec(i)) \div 2,
   startBeat |-> startBeat(s, i, m),
   endBeat |-> endBeat(s, i, m),
   barIndex |-> startBeat(s, i, m) \div (2 * i.timeSignature.numerator),
   confidence |-> s.confidence]

\* "merge adjacent same label"
RECURSIVE MergeBlocks(_, _)
MergeBlocks(bs, merged) ==
  IF bs = <<>> THEN merged
  ELSE LET b == Head(bs)
           last == Last(merged)
       IN IF /\ merged # <<>>
             /\ last.label = b.label
             /\ Abs(last.endSec - b.startSec) < MergeTolerance
          THEN MergeBlocks(Tail(bs),
                 [merged EXCEPT ![Len(merged)] =
                    [last EXCEPT !.endSec = Max(last.endSec, b.endSec),
                                 !.endBeat = Max(last.endBeat, b.endBeat),
                                 !.confidence = Max(last.confidence,
                                                    b.confidence)]])
          ELSE MergeBlocks(Tail(bs), Append(merged, b))

quantizeSegmentsToBeats(segs, i, m) ==
  MergeBlocks([k \in 1..Len(segs) |-> Block(segs[k], i, m)], <<>>)

\* a returned block read as a segment again: its seconds as start and end
AsSegment(b) ==
  [start |-> b.startSec, end |-> b.endSec, label |-> b.label,
   confidence |-> b.confidence]

\* processFile: beatSec, which takes every beat for a quarter
fileBeatSec(i) == 60000 \div Max(1, i.bpm)

\* processFile: quantize(t) = Math.round(t / beatSec) * beatSec
quantize(t, i) == Round(t, fileBeatSec(i)) * fileBeatSec(i)

Quantized(s, i) ==
  [chord |-> s.label,
   startTime |-> Max(0, quantize(s.start, i)),
   endTime |-> Max(quantize(s.end, i), quantize(s.start, i) + fileBeatSec(i)),
   confidence |-> s.confidence]

RECURSIVE MergeQuantized(_, _)
MergeQuantized(qs, merged) ==
  IF qs = <<>> THEN merged
  ELSE LET s == Head(qs)
           last == Last(merged)
       IN IF /\ merged # <<>>
             /\ last.chord = s.chord
             /\ Abs(last.endTime - s.startTime) <= MergeTolerance
          THEN MergeQuantized(Tail(qs),
                 [merged EXCEPT ![Len(merged)] =
                    [last EXCEPT !.endTime = Max(last.endTime, s.endTime),
                                 !.confidence = Max(last.confidence,
                                                    s.confidence)]])
          ELSE MergeQuantized(Tail(qs), Append(merged, s))

\* "ensure min length of 1 beat"
MinLength(s, i) ==
  IF s.endTime - s.startTime < fileBeatSec(i)
  THEN [s EXCEPT !.endTime = s.startTime + fileBeatSec(i)]
  ELSE s

\* processFile's segments after its quantize block; the block is skipped
\* when there are no segments or the tempo has confidence 0
processFileQuantize(segs, i) ==
  LET asIs == [k \in 1..Len(segs) |->
                 [chord |-> segs[k].label, startTime |-> segs[k].start,
                  endTime |-> segs[k].end, confidence |-> segs[k].confidence]]
      merged == MergeQuantized([k \in 1..Len(segs) |-> Quantized(segs[k], i)],
                               <<>>)
  IN IF Len(segs) > 0 /\ i.confidence > 0
     THEN [k \in 1..Len(merged) |-> MinLength(merged[k], i)]
     ELSE asIs

QuantizeSegmentsToBeats ==
  /\ quantStage = "input"
  /\ quantStage' = "quantized"
  /\ blocks' = quantizeSegmentsToBeats(segments, info, mode)
  /\ UNCHANGED <<segments, info, mode, requantized, fileSegments>>
  /\ QuantOnly

Requantize ==
  /\ quantStage = "quantized"
  /\ quantStage' = "requantized"
  /\ requantized' =
       quantizeSegmentsToBeats([k \in 1..Len(blocks) |-> AsSegment(blocks[k])],
                               info, mode)
  /\ UNCHANGED <<segments, info, mode, blocks, fileSegments>>
  /\ QuantOnly

ProcessFileQuantize ==
  /\ quantStage = "input"
  /\ quantStage' = "file"
  /\ fileSegments' = processFileQuantize(segments, info)
  /\ UNCHANGED <<segments, info, mode, blocks, requantized>>
  /\ QuantOnly

\* segment lists that are ordered, do not overlap and have end > start, with
\* a tempo, a metre and a mode
QuantInit ==
  /\ \E shapes \in SeqsUpTo(SegmentShapes, MaxSegments) :
       segments = LayoutSegments(shapes, 0)
  /\ info \in BeatInfos
  /\ mode \in Modes
  /\ quantStage = "input"
  /\ blocks = <<>>
  /\ requantized = <<>>
  /\ fileSegments = <<>>

QuantNext == QuantizeSegmentsToBeats \/ Requantize \/ ProcessFileQuantize

InitQuant == StreamInit /\ NotesIdle /\ QuantInit /\ OthersIdle

SpecQuant == InitQuant /\ [][QuantNext]_vars

--------------------------------------------------------------------------
(***************************************************************************)
(* Claims about beat quantization.                                         *)
(***************************************************************************)
\* spans given by their starts and ends are ordered by start, have
\* end > start, and each ends no later than the next starts
Ordered(starts) ==
  \A k \in 1..(Len(starts) - 1) : starts[k] <= starts[k + 1]

Positive(starts, ends) ==
  \A k \in 1..Len(starts) : ends[k] > starts[k]

Disjoint(starts, ends) ==
  \A k \in 1..(Len(starts) - 1) : ends[k] <= starts[k + 1]

BlockStarts == [k \in 1..Len(blocks) |-> blocks[k].startSec]
BlockEnds == [k \in 1..Len(blocks) |-> blocks[k].endSec]
FileStarts == [k \in 1..Len(fileSegments) |-> fileSegments[k].startTime]
FileEnds == [k \in 1..Len(fileSegments) |-> fileSegments[k].endTime]

\* C5: for every ordered, non-overlapping list of spans with end > start,
\* every BeatInfo and every mode, the spans quantizeSegmentsToBeats returns,
\* and the spans processFile's quantize step leaves, are ordered by start,
\* have end > start and do not overlap.
C5_QuantizedSpansOrderedDisjoint ==
  /\ quantStage = "quantized" =>
       /\ Ordered(BlockStarts)
       /\ Positive(BlockStarts, BlockEnds)
       /\ Disjoint(BlockStarts, BlockEnds)
  /\ quantStage = "file" =>
       /\ Ordered(FileStarts)
       /\ Positive(FileStarts, FileEnds)
       /\ Disjoint(FileStarts, FileEnds)

\* the returned blocks are the given segments, span by span
SameSpans ==
  /\ Len(blocks) = Len(segments)
  /\ \A k \in 1..Len(segments) :
       /\ blocks[k].startSec = segments[k].start
       /\ blocks[k].endSec = segments[k].end
       /\ blocks[k].label = segments[k].label

\* every start and end is a multiple of raster
OnRaster(segs, raster) ==
  \A k \in 1..Len(segs) :
    segs[k].start % raster = 0 /\ segs[k].end % raster = 0

\* no two neighbours are one chord cut in two
NothingToMerge(segs) ==
  \A k \in 1..(Len(segs) - 1) :
    segs[k].label = segs[k + 1].label =>
      Abs(segs[k].end - segs[k + 1].start) >= MergeTolerance

\* C7 as stated: a span whose start and end lie on beat boundaries is
\* returned with the same start, end and label, and quantizing the returned
\* blocks again returns them unchanged, in every mode.
C7_BeatAlignedSpansUnchanged ==
  /\ (/\ quantStage \in {"quantized", "requantized"}
      /\ Len(segments) = 1
      /\ OnRaster(segments, beatSec(info))) => SameSpans
  /\ quantStage = "requantized" => requantized = blocks

\* C7: segments whose starts and ends lie on the raster of the mode (whole
\* bars in mode bar, half beats in mode half, beats in mode beat), and of
\* which no two neighbours are to be merged, are returned with the same
\* starts, ends and labels; and quantizing the returned blocks again returns
\* them unchanged, in every mode.
C7_ModeAlignedSpansUnchanged ==
  /\ (/\ quantStage \in {"quantized", "requantized"}
      /\ OnRaster(segments, (beatSec(info) * step(info, mode)) \div 2)
      /\ NothingToMerge(segments)) => SameSpans
  /\ quantStage = "requantized" => requantized = blocks

\* two segments of whole bars, quantized to bars twice
C7_Witness ==
  /\ quantStage = "requantized"
  /\ mode = "bar"
  /\ Len(segments) = 2
  /\ OnRaster(segments, (beatSec(info) * step(info, mode)) \div 2)
  /\ NothingToMerge(segments)
  /\ Len(requantized) = 2

--------------------------------------------------------------------------
(***************************************************************************)
(* ChordDetector (Swift): beat-synchronous detection.  Times are in        *)
(* milliseconds, confidences in thousandths.  A chord span is [start, end, *)
(* label, confidence]; quality, root and bass follow the label.  What      *)
(* findBestChord returns for the averaged chroma of a beat is an input:    *)
(* a label with its score, or nil (NoBest) when no template scores above   *)
(* 0.  The beats are increasing and not negative, as the beat tracker      *)
(* delivers them.                                                          *)
(***************************************************************************)
FrameDuration == 20          \* frameDuration: Double = 0.02
LastBeatLength == 500        \* beatEnd of the last beat: beatStart + 0.5
MinChordDuration == 300      \* minChordDuration 0.3
HysteresisThreshold == 50    \* hysteresisThreshold 0.05

\* bound of the beat lists drawn as inputs, and of the beat lists handed to
\* detectChords when it is called on its own
MaxBeats == 4
MaxCallBeats == 2

FirstBeats == {0, 500}
BeatGaps == {250, 1000}
ChromaCounts == {0, 60, 200}
BestLabels == {"C", "F"}
BestScores == {1000, 1200}
NoBest == [label |-> "nil", confidence |-> 0]
BestChords == {NoBest} \cup [label : BestLabels, confidence : BestScores]

RECURSIVE LayoutBeats(_, _)
LayoutBeats(gaps, t) ==
  IF gaps = <<>> THEN <<>>
  ELSE <<t + Head(gaps)>> \o LayoutBeats(Tail(gaps), t + Head(gaps))

\* the beat lists of n beats
BeatLists(n) ==
  IF n = 0 THEN {<<>>}
  ELSE {<<first>> \o LayoutBeats(gaps, first) :
          first \in FirstBeats, gaps \in [1..(n - 1) -> BeatGaps]}

\* analyzeBeatSynchronousChords: the loop over the beats from beat i on
RECURSIVE BeatLoop(_, _, _, _, _)
BeatLoop(frames, bts, best, i, chords) ==
  IF i > Len(bts) THEN chords
  ELSE LET beatStart == bts[i]
           beatEnd == IF i < Len(bts) THEN bts[i + 1]
                      ELSE beatStart + LastBeatLength
           startFrame == beatStart \div FrameDuration
           bestChord == [start |-> beatStart, end |-> beatEnd,
                         label |-> best[i].label,
                         confidence |-> best[i].confidence]
       IN IF startFrame >= frames
          THEN BeatLoop(frames, bts, best, i + 1, chords)
          ELSE IF best[i] # NoBest
               THEN BeatLoop(frames, bts, best, i + 1,
                             Append(chords, bestChord))
               ELSE BeatLoop(frames, bts, best, i + 1, chords)

analyzeBeatSynchronousChords(frames, bts, best) ==
  BeatLoop(frames, bts, best, 1, <<>>)

shouldMergeChords(chord1, chord2) ==
  IF chord1.label = chord2.label THEN TRUE
  ELSE IF Abs(chord1.confidence - chord2.confidence) < HysteresisThreshold
       THEN TRUE
       ELSE FALSE

RECURSIVE MergeChordLoop(_, _, _)
MergeChordLoop(rest, merged, currentChord) ==
  IF rest = <<>> THEN Append(merged, currentChord)
  ELSE LET nextChord == Head(rest)
       IN IF shouldMergeChords(currentChord, nextChord)
          THEN MergeChordLoop(Tail(rest), merged,
                 [currentChord EXCEPT
                    !.end = nextChord.end,
                    !.confidence = Max(currentChord.confidence,
                                       nextChord.confidence)])
          ELSE MergeChordLoop(Tail(rest), Append(merged, currentChord),
                              nextChord)

mergeConsecutiveChords(chords) ==
  IF chords = <<>> THEN <<>>
  ELSE MergeChordLoop(Tail(chords), <<>>, chords[1])

LongEnoughChord(chord) == chord.end - chord.start >= MinChordDuration

quantizeChordDurations(chords) == SelectSeq(chords, LongEnoughChord)

detectChords(frames, bts, best) ==
  IF frames = 0 \/ bts = <<>> THEN <<>>
  ELSE quantizeChordDurations(mergeConsecutiveChords(
         analyzeBeatSynchronousChords(frames, bts, best)))

\* detectChords step by step; the guard of detectChords returns at once
AnalyzeBeatSynchronousChords ==
  /\ chordStage = "input"
  /\ IF chromaCount = 0 \/ beats = <<>>
     THEN /\ chordStage' = "quantized"
          /\ UNCHANGED beatChords
     ELSE /\ chordStage' = "analyzed"
          /\ beatChords' =
               analyzeBeatSynchronousChords(chromaCount, beats, bestChords)
  /\ UNCHANGED <<chromaCount, beats, bestChords, mergedChords,
                 quantizedChords>>
  /\ ChordsOnly

MergeConsecutiveChords ==
  /\ chordStage = "analyzed"
  /\ chordStage' = "merged"
  /\ mergedChords' = mergeConsecutiveChords(beatChords)
  /\ UNCHANGED <<chromaCount, beats, bestChords, beatChords, quantizedChords>>
  /\ ChordsOnly

QuantizeChordDurations ==
  /\ chordStage = "merged"
  /\ chordStage' = "quantized"
  /\ quantizedChords' = quantizeChordDurations(mergedChords)
  /\ UNCHANGED <<chromaCount, beats, bestChords, beatChords, mergedChords>>
  /\ ChordsOnly

ChordsInit ==
  /\ chromaCount \in ChromaCounts
  /\ \E n \in 0..MaxBeats :
       /\ beats \in BeatLists(n)
       /\ bestChords \in [1..n -> BestChords]
  /\ chordStage = "input"
  /\ beatChords = <<>>
  /\ mergedChords = <<>>
  /\ quantizedChords = <<>>

ChordsNext ==
  AnalyzeBeatSynchronousChords \/ MergeConsecutiveChords
    \/ QuantizeChordDurations

InitChords ==
  StreamInit /\ NotesIdle /\ QuantIdle /\ ExtractIdle /\ ChordsInit
    /\ AnalysisIdle

SpecChords == InitChords /\ [][ChordsNext]_vars

--------------------------------------------------------------------------
(***************************************************************************)
(* Claims about beat-synchronous chord detection.                          *)
(***************************************************************************)
\* every beat has chroma frames and a best chord
EveryBeatHasBest ==
  /\ chromaCount > 0
  /\ beats # <<>>
  /\ \A i \in 1..Len(beats) :
       beats[i] \div FrameDuration < chromaCount /\ bestChords[i] # NoBest

\* the beats at which the best label changes, and the k-th of them
RunStarts ==
  {i \in 1..Len(beats) :
     i = 1 \/ bestChords[i].label # bestChords[i - 1].label}

RunStart(k) ==
  CHOOSE i \in RunStarts : Cardinality({j \in RunStarts : j <= i}) = k

\* start, end and label of the returned chords
Returned ==
  [k \in 1..Len(quantizedChords) |->
     <<quantizedChords[k].label, quantizedChords[k].start,
       quantizedChords[k].end>>]

\* C8: detectChords returns exactly one span per maximal run of consecutive
\* beats with the same best label, starting at the first beat of the run and
\* carrying its label, and never merges beats with different best labels;
\* for beats at 0, 1, 2, 3 s with best chords C, C, F, F it returns C over
\* 0-2 s and F over 2-4 s.
C8_OneSpanPerRunOfBestLabel ==
  (chordStage = "quantized" /\ EveryBeatHasBest) =>
    /\ Len(quantizedChords) = Cardinality(RunStarts)
    /\ \A k \in 1..Len(quantizedChords) :
         /\ quantizedChords[k].label = bestChords[RunStart(k)].label
         /\ quantizedChords[k].start = beats[RunStart(k)]
    /\ (/\ beats = <<0, 1000, 2000, 3000>>
        /\ [i \in 1..4 |-> bestChords[i].label] = <<"C", "C", "F", "F">>)
       => Returned = <<<<"C", 0, 2000>>, <<"F", 2000, 4000>>>>

--------------------------------------------------------------------------
(***************************************************************************)
(* The extraction entry points called on their own (Swift, and the         *)
(* TypeScript KeyDetector).  An audio buffer is its number of samples.     *)
(* Each call records what came of it in outcome: raised is TRUE when the   *)
(* call ends in a runtime error.  Swift's Int division truncates toward    *)
(* zero, and a range 0..<n with n < 0 is a runtime error.                  *)
(***************************************************************************)
SampleRate == 44100          \* sampleRate: Double = 44100
FrameSize == 2048            \* MelodyExtractor.frameSize
HopSize == 512               \* MelodyExtractor.hopSize
SpectrumFrameSize == 4096    \* FeatureExtractor.frameSize
SpectrumHopSize == 1024      \* FeatureExtractor.hopSize

\* the buffers drawn as inputs hold a multiple of 256 samples or one sample
\* more, up to MaxBlocks times 256
MaxBlocks == 22

AudioCounts == {k * 256 + d : k \in 0..MaxBlocks, d \in {0, 1}}

\* what yinPitchDetection and the voicing test make of a frame: a MIDI note,
\* or 0 for an unvoiced frame
FramePitches == {0, 60}

\* what chromaToKey can make of a history that is not empty
\* frames handed to one KeyDetector
MaxKeyFrames == 23

KeyEstimates ==
  [key : {"C", "G"}, confidence : {0, 700}, mode : {"major", "minor"}]

DefaultKey == [key |-> "C", confidence |-> 0, mode |-> "major"]

\* Swift's a / b on Int, for b > 0
TruncDiv(a, b) == IF a >= 0 THEN a \div b ELSE -((-a) \div b)

hopCount(count, frameSize, hopSize) ==
  TruncDiv(count - frameSize, hopSize) + 1

\* the hops of "for hop in 0..<hopCount" whose frame is a whole frame, in
\* order
RECURSIVE HopLoop(_, _, _, _, _)
HopLoop(count, frameSize, hopSize, hop, frames) ==
  IF hop >= hopCount(count, frameSize, hopSize) THEN frames
  ELSE LET startIndex == hop * hopSize
           endIndex == Min(startIndex + frameSize, count)
       IN HopLoop(count, frameSize, hopSize, hop + 1,
                  IF endIndex - startIndex = frameSize
                  THEN Append(frames, hop) ELSE frames)

Raised(op) == [op |-> op, raised |-> TRUE, value |-> <<>>]

Returns(op, value) == [op |-> op, raised |-> FALSE, value |-> value]

\* the frames of a buffer of count samples, or the runtime error of the range
Framing(op, count, frameSize, hopSize) ==
  IF hopCount(count, frameSize, hopSize) < 0 THEN Raised(op)
  ELSE Returns(op, HopLoop(count, frameSize, hopSize, 0, <<>>))

\* extractF0Track: the hops of the F0 points it returns
extractF0Track(count) == Framing("extractF0Track", count, FrameSize, HopSize)

\* computeSpectrum: the hops of the spectra it returns
computeSpectrum(count) ==
  Framing("computeSpectrum", count, SpectrumFrameSize, SpectrumHopSize)

\* F0Point.time of a hop, in ms
timeSeconds(hop) == (hop * HopSize * 1000) \div SampleRate

\* f0TrackToPitches for the hops of an F0 track and the pitch of each frame
f0TrackToPitches(hops, pitches) ==
  [k \in 1..Len(hops) |->
     [time |-> timeSeconds(hops[k]), midi |-> pitches[k],
      voiced |-> pitches[k] # 0]]

refineNotes(ns) == removeOutliers(mergeCloseNotes(FilterShort(ns)))

\* no call has been made yet
Uncalled == outcome = NoOutcome

ExtractOnly(called) ==
  /\ UNCHANGED <<noteVars, quantVars, analysisVars>>
  /\ IF called = "detectChords" THEN TRUE ELSE UNCHANGED chordVars
  /\ IF called = "getCurrentKey"
     THEN UNCHANGED <<isStreaming, lastChord, lastSegmentTime, currentSegment,
                      buffer, tempoFrames,
                 chordNotified, worker, callbacks, callbackId,
                      timers, inbox, calls, mediaTime, delivered>>
     ELSE UNCHANGED streamVars

ExtractF0Track(count) ==
  /\ Uncalled
  /\ audioCount' = count
  /\ outcome' = extractF0Track(count)
  /\ UNCHANGED framesAdded
  /\ ExtractOnly("extractF0Track")

\* extractMelody(from: audioData); pitches are the pitches of its frames
ExtractMelody(count, pitches) ==
  /\ Uncalled
  /\ audioCount' = count
  /\ LET f0Track == extractF0Track(count)
     IN IF f0Track.raised
        THEN outcome' = Raised("extractMelody")
        ELSE outcome' =
               Returns("extractMelody",
                       refineNotes(segmentIntoNotes(
                         f0TrackToPitches(f0Track.value, pitches))))
  /\ UNCHANGED framesAdded
  /\ ExtractOnly("extractMelody")

ComputeSpectrum(count) ==
  /\ Uncalled
  /\ audioCount' = count
  /\ outcome' = computeSpectrum(count)
  /\ UNCHANGED framesAdded
  /\ ExtractOnly("computeSpectrum")

DetectChords(frames, bts, best) ==
  /\ Uncalled
  /\ chromaCount' = frames
  /\ beats' = bts
  /\ bestChords' = best
  /\ chordStage' = "quantized"
  /\ beatChords' = IF frames = 0 \/ bts = <<>> THEN <<>>
                   ELSE analyzeBeatSynchronousChords(frames, bts, best)
  /\ mergedChords' = mergeConsecutiveChords(beatChords')
  /\ quantizedChords' = detectChords(frames, bts, best)
  /\ outcome' = Returns("detectChords", quantizedChords')
  /\ UNCHANGED <<audioCount, framesAdded>>
  /\ ExtractOnly("detectChords")

\* KeyDetector.addChromaFrame; the frame carries its arrival number
AddChromaFrame ==
  /\ Uncalled
  /\ framesAdded < MaxKeyFrames
  /\ framesAdded' = framesAdded + 1
  /\ chromaHistory' = PushCapped(chromaHistory,
                                 [call |-> framesAdded + 1, chroma |-> 0],
                                 HistorySize)
  /\ UNCHANGED <<audioCount, outcome>>
  /\ ExtractOnly("getCurrentKey")

\* KeyDetector.getCurrentKey; estimate is chromaToKey's answer for the
\* averaged history
GetCurrentKey(estimate) ==
  /\ Uncalled
  /\ outcome' = IF Len(chromaHistory) = 0
                THEN Returns("getCurrentKey", DefaultKey)
                ELSE Returns("getCurrentKey", estimate)
  /\ UNCHANGED <<audioCount, chromaHistory, framesAdded>>
  /\ ExtractOnly("getCurrentKey")

ExtractNext ==
  \/ \E count \in AudioCounts : ExtractF0Track(count)
  \/ \E count \in AudioCounts :
       \E pitches \in [1..Len(extractF0Track(count).value) -> FramePitches] :
         ExtractMelody(count, pitches)
  \/ \E count \in AudioCounts : ComputeSpectrum(count)
  \/ \E frames \in ChromaCounts, n \in 0..MaxCallBeats :
       \E bts \in BeatLists(n), best \in [1..n -> BestChords] :
         DetectChords(frames, bts, best)
  \/ AddChromaFrame
  \/ \E estimate \in KeyEstimates : GetCurrentKey(estimate)

InitExtract ==
  StreamInit /\ NotesIdle /\ QuantIdle /\ ExtractIdle /\ ChordsIdle
    /\ AnalysisIdle

SpecExtract == InitExtract /\ [][ExtractNext]_vars

--------------------------------------------------------------------------
(***************************************************************************)
(* Claims about the extraction entry points.                               *)
(***************************************************************************)
\* C4: for every input length, 0 and lengths below one analysis frame
\* included, no entry point ends in a runtime error, and on such inputs each
\* returns its default: extractMelody, extractF0Track and computeSpectrum an
\* empty list, detectChords an empty list when it has no frames or no beats,
\* getCurrentKey the key C major with confidence 0 on an empty history.
C4_EntryPointsReturnDefaults ==
  /\ ~outcome.raised
  /\ (/\ outcome.op \in {"extractF0Track", "extractMelody"}
      /\ audioCount < FrameSize) => outcome.value = <<>>
  /\ (outcome.op = "computeSpectrum" /\ audioCount < SpectrumFrameSize)
       => outcome.value = <<>>
  /\ (outcome.op = "detectChords" /\ (chromaCount = 0 \/ beats = <<>>))
       => outcome.value = <<>>
  /\ (outcome.op = "getCurrentKey" /\ chromaHistory = <<>>)
       => outcome.value = DefaultKey

--------------------------------------------------------------------------
(***************************************************************************)
(* ChordDetector (Swift): template matching on one chroma vector.  A       *)
(* chroma vector is a function on the pitch classes 0..11 with values in   *)
(* tenths; scores and correlations are in thousandths.  A square root is   *)
(* taken as the integer square root of the radicand scaled by 10^4, so a   *)
(* score is exact to about one thousandth: two scores that differ by less  *)
(* are taken as a tie, and a tie is resolved in either way.                *)
(***************************************************************************)
ContextWeight == 200          \* contextWeight 0.2
MinCandidateScore == 300      \* analyzeChromaFrame: score > 0.3
MaxCandidates == 5            \* analyzeChromaFrame: candidates.prefix(5)

BaseNames ==
  <<"C", "C#", "D", "D#", "E", "F", "F#", "G", "G#", "A", "A#", "B">>

FlatNames ==
  <<"C", "Db", "D", "Eb", "E", "F", "Gb", "G", "Ab", "A", "Bb", "B">>

FlatKeys == {"F", "Bb", "Eb", "Ab", "Db", "Gb"}

\* the note names both getEnharmonicSpelling and getScaleDegrees use in key k
ChromaticNotes(k) == IF k.tonic \in FlatKeys THEN FlatNames ELSE BaseNames

getEnharmonicSpelling(noteClass, k) == ChromaticNotes(k)[(noteClass % 12) + 1]

isMajor(k) == k.mode = "major"

getScaleDegrees(k) ==
  LET chromaticNotes == ChromaticNotes(k)
      found == {i \in 0..11 : chromaticNotes[i + 1] = k.tonic}
  IN IF found = {} THEN {}
     ELSE LET tonicIndex == CHOOSE i \in found : TRUE
              intervals == IF isMajor(k) THEN {0, 2, 4, 5, 7, 9, 11}
                           ELSE {0, 2, 3, 5, 7, 8, 10}
          IN {chromaticNotes[((tonicIndex + i) % 12) + 1] : i \in intervals}

isDiatonic(chordRoot, k) == chordRoot \in getScaleDegrees(k)

\* weights are in tenths
chordTemplates ==
  << [quality |-> "major", intervals |-> <<0, 4, 7>>, weight |-> 10],
     [quality |-> "minor", intervals |-> <<0, 3, 7>>, weight |-> 10],
     [quality |-> "diminished", intervals |-> <<0, 3, 6>>, weight |-> 10],
     [quality |-> "augmented", intervals |-> <<0, 4, 8>>, weight |-> 10],
     [quality |-> "suspended2", intervals |-> <<0, 2, 7>>, weight |-> 10],
     [quality |-> "suspended4", intervals |-> <<0, 5, 7>>, weight |-> 10],
     [quality |-> "sixth", intervals |-> <<0, 4, 7, 9>>, weight |-> 10],
     [quality |-> "add9", intervals |-> <<0, 4, 7, 14>>, weight |-> 10],
     [quality |-> "major7", intervals |-> <<0, 4, 7, 11>>, weight |-> 10],
     [quality |-> "minor7", intervals |-> <<0, 3, 7, 10>>, weight |-> 10],
     [quality |-> "dominant7", intervals |-> <<0, 4, 7, 10>>, weight |-> 10],
     [quality |-> "minorSeven5", intervals |-> <<0, 3, 6, 10>>,
      weight |-> 10],
     [quality |-> "ninth", intervals |-> <<0, 4, 7, 10, 14>>, weight |-> 8],
     [quality |-> "eleventh", intervals |-> <<0, 4, 7, 10, 14, 17>>,
      weight |-> 7],
     [quality |-> "thirteenth", intervals |-> <<0, 4, 7, 10, 14, 17, 21>>,
      weight |-> 6] >>

\* ChordTemplate.chromaVector: 1 on the template's pitch classes.  The code
\* then divides every bin by their number; correlation does not change under
\* that scaling, so the bins stay 0 or 1 here.
chromaVector(template) ==
  [i \in 0..11 |->
     IF \E j \in 1..Len(template.intervals) : template.intervals[j] % 12 = i
     THEN 1 ELSE 0]

transposeTemplate(templateChroma, root) ==
  [i \in 0..11 |-> templateChroma[(i - root + 12) % 12]]

RECURSIVE SumBins(_, _)
SumBins(x, i) == IF i > 11 THEN 0 ELSE x[i] + SumBins(x, i + 1)

RECURSIVE SqrtLoop(_, _, _)
SqrtLoop(n, lo, hi) ==
  IF lo >= hi THEN lo
  ELSE LET mid == (lo + hi + 1) \div 2
       IN IF mid * mid <= n THEN SqrtLoop(n, mid, hi)
          ELSE SqrtLoop(n, lo, mid - 1)

\* the largest r with r * r <= n, for 0 <= n < 2^31
Isqrt(n) == SqrtLoop(n, 0, 46340)

\* Pearson correlation in thousandths; numerator and both sums of squares
\* are taken times 12, which leaves the quotient as it is
correlation(x, y) ==
  LET sumX == SumBins(x, 0)
      sumY == SumBins(y, 0)
      numerator == 12 * SumBins([i \in 0..11 |-> x[i] * y[i]], 0) - sumX * sumY
      denomX == 12 * SumBins([i \in 0..11 |-> x[i] * x[i]], 0) - sumX * sumX
      denomY == 12 * SumBins([i \in 0..11 |-> y[i] * y[i]], 0) - sumY * sumY
      denominator == Isqrt(denomX * denomY * 10000)
  IN IF denominator > 0 THEN (numerator * 100000) \div denominator ELSE 0

computeChordScore(c, template, root, k) ==
  LET templateChroma == transposeTemplate(chromaVector(template), root)
      correlationScore == correlation(c, templateChroma)
      weightedScore == (correlationScore * template.weight) \div 10
      rootName == getEnharmonicSpelling(root, k)
      contextBoost == IF isDiatonic(rootName, k) THEN ContextWeight ELSE 0
  IN Max(0, weightedScore + contextBoost)

\* the candidate for a root and a template: the ChordSpan's root and quality,
\* and its score
Candidate(c, root, t, k) ==
  [root |-> getEnharmonicSpelling(root, k),
   quality |-> chordTemplates[t].quality,
   score |-> computeChordScore(c, chordTemplates[t], root, k)]

\* findBestChord: the inner loop over the templates for one root
RECURSIVE TemplateScan(_, _, _, _, _)
TemplateScan(c, k, root, t, best) ==
  IF t > Len(chordTemplates) THEN best
  ELSE LET cand == Candidate(c, root, t, k)
       IN IF cand.score > best.score
          THEN TemplateScan(c, k, root, t + 1, cand)
          ELSE TemplateScan(c, k, root, t + 1, best)

\* findBestChord: the outer loop over the roots
RECURSIVE RootScan(_, _, _, _)
RootScan(c, k, root, best) ==
  IF root > 11 THEN best
  ELSE RootScan(c, k, root + 1, TemplateScan(c, k, root, 1, best))

\* NoCandidate stands for nil
findBestChord(c, k) == RootScan(c, k, 0, NoCandidate)

\* the candidates of analyzeChromaFrame before the sort
Scored(c, k) ==
  {cand \in {Candidate(c, root, t, k) :
               root \in 0..11, t \in 1..Len(chordTemplates)} :
     cand.score > MinCandidateScore}

TopRanked(S) ==
  LET scores == {cand.score : cand \in S}
      top == CHOOSE v \in scores : \A w \in scores : w <= v
  IN {cand \in S : cand.score = top}

\* the lists candidates.sort { $0.1 > $1.1 } followed by prefix(n) can give:
\* the sort leaves the order of equal scores open
RECURSIVE SortedPrefixes(_, _)
SortedPrefixes(S, n) ==
  IF n = 0 \/ S = {} THEN {<<>>}
  ELSE UNION {{<<cand>> \o rest : rest \in SortedPrefixes(S \ {cand}, n - 1)} :
                cand \in TopRanked(S)}

analyzeChromaFrame(c, k) == SortedPrefixes(Scored(c, k), MaxCandidates)
--------------------------------------------------------------------------
(***************************************************************************)
(* matchChordToChroma (TypeScript) and the chord vocabulary.  The key      *)
(* prior is the key's tonic followed by 'm' for a minor key; it is kept as *)
(* the record [tonic, mode] it is written from and read back into, and     *)
(* NoKey stands for an undefined key prior.                                *)
(***************************************************************************)
\* CHORD_DEFINITIONS of one quality on the twelve roots; root is what
\* chordName.replace(/[^A-G#b]/g, '') leaves of the name
OnEveryRoot(suffix, offsets, lvl) ==
  [r \in 1..12 |->
     [name |-> BaseNames[r] \o suffix,
      root |-> BaseNames[r],
      intervals |-> [j \in 1..Len(offsets) |-> (r - 1 + offsets[j]) % 12],
      level |-> lvl]]

OnC(suffix, ivs) ==
  [name |-> "C" \o suffix, root |-> "C", intervals |-> ivs, level |-> "rich"]

CHORD_DEFINITIONS ==
  OnEveryRoot("", <<0, 4, 7>>, "basic")
    \o OnEveryRoot("m", <<0, 3, 7>>, "basic")
    \o OnEveryRoot("7", <<0, 4, 7, 10>>, "extended")
    \o OnEveryRoot("maj7", <<0, 4, 7, 11>>, "extended")
    \o OnEveryRoot("m7", <<0, 3, 7, 10>>, "extended")
    \o << OnC("sus2", <<0, 2, 7>>), OnC("sus4", <<0, 5, 7>>),
          OnC("dim", <<0, 3, 6>>), OnC("aug", <<0, 4, 8>>),
          OnC("add9", <<0, 2, 4, 7>>) >>

Levels == {"basic", "extended", "rich"}

getChordsByLevel(lvl) ==
  SelectSeq(CHORD_DEFINITIONS,
            LAMBDA chord :
              \/ lvl = "rich"
              \/ chord.level = "basic"
              \/ lvl = "extended" /\ chord.level = "extended")

\* weights in tenths: 1.0 for the root, 0.8, 0.7, then 0.5
IntervalWeight(index) ==
  IF index = 1 THEN 10 ELSE IF index = 2 THEN 8 ELSE IF index = 3 THEN 7 ELSE 5

intervalsToChromaTemplate(intervals) ==
  [i \in 0..11 |->
     LET at == {j \in 1..Len(intervals) : intervals[j] % 12 = i}
     IN IF at = {} THEN 0
        ELSE IntervalWeight(CHOOSE j \in at : \A other \in at : other <= j)]

generateChordTemplates(lvl) ==
  LET chords == getChordsByLevel(lvl)
  IN [n \in 1..Len(chords) |->
        [name |-> chords[n].name, root |-> chords[n].root,
         template |-> intervalsToChromaTemplate(chords[n].intervals)]]

\* utils/math.ts cosineSimilarity, in thousandths
cosineSimilarity(a, b) ==
  LET dotProduct == SumBins([i \in 0..11 |-> a[i] * b[i]], 0)
      normA == SumBins([i \in 0..11 |-> a[i] * a[i]], 0)
      normB == SumBins([i \in 0..11 |-> b[i] * b[i]], 0)
  IN IF normA = 0 \/ normB = 0 THEN 0
     ELSE (dotProduct * 50000) \div Isqrt(normA * normB * 2500)

\* in tenths: 1.2 for the tonic chord, 1.1 for a chord on a preferred degree
calculateKeyPriorBonus(chordRoot, k) ==
  LET isMinorKey == k.mode = "minor"
      keyRoot == k.tonic
      keyAt == {i \in 0..11 : BaseNames[i + 1] = keyRoot}
      chordAt == {i \in 0..11 : BaseNames[i + 1] = chordRoot}
  IN IF chordRoot = keyRoot THEN 12
     ELSE IF keyAt # {} /\ chordAt # {}
     THEN LET keyIndex == CHOOSE i \in keyAt : TRUE
              chordIndex == CHOOSE i \in chordAt : TRUE
              interval == (chordIndex - keyIndex + 12) % 12
          IN IF isMinorKey
             THEN IF interval \in {0, 3, 5, 7, 10} THEN 11 ELSE 10
             ELSE IF interval \in {0, 2, 4, 5, 7, 9, 11} THEN 11 ELSE 10
     ELSE 10

\* in hundredths
calculateHarmonicEmphasis(c) ==
  LET maxChroma == CHOOSE v \in {c[i] : i \in 0..11} :
                     \A i \in 0..11 : c[i] <= v
      chromaSum == SumBins(c, 0)
      clear == maxChroma > 3 /\ chromaSum > 5
      nonZeroCount == Cardinality({i \in 0..11 : c[i] > 1})
      odd == nonZeroCount < 2 \/ nonZeroCount > 8
  IN ((IF clear THEN 110 ELSE 100) * (IF odd THEN 90 ELSE 100)) \div 100

\* the similarity of one template after the key prior and the emphasis
AdjustedSimilarity(c, template, k) ==
  LET similarity == cosineSimilarity(c, template.template)
      withKey == IF k # NoKey /\ similarity > 300
                 THEN (similarity * calculateKeyPriorBonus(template.root, k))
                        \div 10
                 ELSE similarity
  IN (withKey * calculateHarmonicEmphasis(c)) \div 100

RECURSIVE MatchLoop(_, _, _, _, _)
MatchLoop(c, templates, k, n, best) ==
  IF n > Len(templates) THEN best
  ELSE LET similarity == AdjustedSimilarity(c, templates[n], k)
       IN IF similarity > best.confidence
          THEN MatchLoop(c, templates, k, n + 1,
                         [name |-> templates[n].name,
                          confidence |-> Min(1000, similarity)])
          ELSE MatchLoop(c, templates, k, n + 1, best)

matchChordToChroma(c, lvl, k) ==
  MatchLoop(c, generateChordTemplates(lvl), k, 1, NoChord)
--------------------------------------------------------------------------
(***************************************************************************)
(* The matchers called on one chroma vector.                               *)
(***************************************************************************)
Silent == [i \in 0..11 |-> 0]

\* every bin at 0.1
Noise == [i \in 0..11 |-> 1]

\* bins root, root + third and root + 7 at the given weights
Triad(root, third, weights) ==
  [i \in 0..11 |->
     IF i = root % 12 THEN weights[1]
     ELSE IF i = (root + third) % 12 THEN weights[2]
     ELSE IF i = (root + 7) % 12 THEN weights[3]
     ELSE 0]

MajorTriad(root) == Triad(root, 4, <<10, 10, 10>>)

ChromaInputs ==
  {Silent, Noise}
    \cup {Triad(root, third, weights) :
            root \in 0..11, third \in {3, 4},
            weights \in {<<10, 10, 10>>, <<10, 8, 7>>}}

Keys ==
  {NoKey, [tonic |-> "C", mode |-> "major"], [tonic |-> "F", mode |-> "major"],
   [tonic |-> "A", mode |-> "minor"]}

\* the Swift detector has no vocabulary level: it is handed the inputs whose
\* level is the default one
DefaultLevel == "basic"

\* ChordDetector.analyzeChromaFrame(chroma, key: key)
AnalyzeChromaFrame ==
  /\ matchStage = "input"
  /\ key # NoKey
  /\ level = DefaultLevel
  /\ matchStage' = "analyzed"
  /\ candidates' \in analyzeChromaFrame(chroma, key)
  /\ UNCHANGED <<chroma, key, level, bestFound, bestMatch>>
  /\ MatchOnly

\* ChordDetector.findBestChord(chroma: chroma, key: key, ...)
FindBestChord ==
  /\ matchStage = "input"
  /\ key # NoKey
  /\ level = DefaultLevel
  /\ matchStage' = "found"
  /\ bestFound' = findBestChord(chroma, key)
  /\ UNCHANGED <<chroma, key, level, candidates, bestMatch>>
  /\ MatchOnly

\* matchChordToChroma(chroma, level, keyPrior)
MatchChordToChroma ==
  /\ matchStage = "input"
  /\ matchStage' = "matched"
  /\ bestMatch' = matchChordToChroma(chroma, level, key)
  /\ UNCHANGED <<chroma, key, level, candidates, bestFound>>
  /\ MatchOnly

MatchInit ==
  /\ chroma \in ChromaInputs
  /\ key \in Keys
  /\ level \in Levels
  /\ matchStage = "input"
  /\ candidates = <<>>
  /\ bestFound = NoCandidate
  /\ bestMatch = NoChord

MatchNext == AnalyzeChromaFrame \/ FindBestChord \/ MatchChordToChroma

InitMatch ==
  StreamInit /\ NotesIdle /\ QuantIdle /\ ExtractIdle /\ ChordsIdle
    /\ MatchInit /\ TempoIdle /\ BarIdle /\ SmoothIdle /\ KeyIdle
    /\ ViterbiIdle

SpecMatch == InitMatch /\ [][MatchNext]_vars

--------------------------------------------------------------------------
(***************************************************************************)
(* Claims about chord matching.                                            *)
(***************************************************************************)
\* C11: for each of the 12 roots r, the chroma with bins r, r + 4 and r + 7
\* at 1 and the others at 0 has a chord of quality major on root r as the
\* first of analyzeChromaFrame's candidates.
C11_MajorTriadRankedFirst ==
  \A r \in 0..11 :
    (matchStage = "analyzed" /\ chroma = MajorTriad(r))
      => /\ candidates # <<>>
         /\ candidates[1].quality = "major"
         /\ candidates[1].root = getEnharmonicSpelling(r, key)


\* the best score over all roots and templates, as computeChordScore gives it
BestScore(c, k) ==
  LET scores == {Candidate(c, root, t, k).score :
                   root \in 0..11, t \in 1..Len(chordTemplates)}
  IN CHOOSE v \in scores : \A w \in scores : w <= v

\* the adjusted similarities of the templates of a level, in template order
Similarities(c, lvl, k) ==
  LET templates == generateChordTemplates(lvl)
  IN [n \in 1..Len(templates) |-> AdjustedSimilarity(c, templates[n], k)]

BestSimilarity(c, lvl, k) ==
  LET sims == Similarities(c, lvl, k)
  IN CHOOSE v \in {sims[n] : n \in DOMAIN sims} :
       \A n \in DOMAIN sims : sims[n] <= v

\* C14: whenever the best score over all roots and qualities is below 0.3,
\* findBestChord returns nil and matchChordToChroma returns 'N/C'; a silent
\* chroma never yields a chord.
C14_BelowThresholdIsNoChord ==
  /\ (matchStage = "found" /\ BestScore(chroma, key) < 300)
       => bestFound = NoCandidate
  /\ (matchStage = "matched" /\ BestSimilarity(chroma, level, key) < 300)
       => bestMatch.name = "N/C"

\* C15: matchChordToChroma returns the name of a template whose adjusted
\* similarity is the greatest of its level, values above 1 included, and
\* 'N/C' only when no template has a positive adjusted similarity.
C15_ReturnsArgmax ==
  matchStage = "matched" =>
    LET templates == generateChordTemplates(level)
        sims == Similarities(chroma, level, key)
        top == BestSimilarity(chroma, level, key)
    IN IF top <= 0 THEN bestMatch.name = "N/C"
       ELSE \E n \in DOMAIN sims :
              templates[n].name = bestMatch.name /\ sims[n] = top

--------------------------------------------------------------------------
(***************************************************************************)
(* TempoDetector (tempoDetect.ts).  Timestamps and intervals are in        *)
(* milliseconds, tempi inside getBeatInfo in thousandths of a bpm, the     *)
(* returned bpm in bpm, confidences in thousandths, energies in units of   *)
(* 0.1.  downbeatOffset is in 64ths of the beat period 60 / bpm: the       *)
(* centre of phase bin i of 32 is (2 i + 1) / 64 of a beat.                *)
(***************************************************************************)
MinOnsets == 4                 \* getBeatInfo: onsetEvents.length < 4
MinBpm == 50
MaxBpm == 200
DefaultBpm == 120
BpmTolerance == 4000           \* groupSimilarBPMs: tolerance 4
PhaseBins == 32                \* nbins
OnsetFactor == 112             \* 1 + onsetThreshold, in hundredths
MaxOnsets == 200               \* maxOnsets

\* frames handed to one detector
MaxTempoFrames == 5

\* the timestamp of a frame minus that of the frame before
TempoSteps == {240, 250, 500}

\* computeSpectralEnergy of a frame
Energies == {1, 2, 3}

\* JavaScript's %: the sign of the result is that of the dividend
JsRem(a, b) == IF a >= 0 THEN a % b ELSE -((-a) % b)

DefaultBeatInfo ==
  [bpm |-> DefaultBpm, confidence |-> 0, downbeatOffset |-> 0,
   timeSignature |-> [numerator |-> 4, denominator |-> 4]]

Intervals(events) ==
  [i \in 1..(Len(events) - 1) |-> events[i + 1].t - events[i].t]

\* a filter that keeps every positive interval, whatever its tempo
AnyTempo(iv) == iv > 0

\* 60 / iv, for the intervals that give a tempo of 50 to 200 bpm.  An
\* interval of 0 gives Infinity and a negative one a negative tempo; both
\* are filtered out.
InRange(iv) ==
  /\ iv > 0
  /\ 60000 >= MinBpm * iv
  /\ 60000 <= MaxBpm * iv

BpmCandidates(events) ==
  LET kept == SelectSeq(Intervals(events), InRange)
  IN [i \in 1..Len(kept) |-> 60000000 \div kept[i]]

\* a grouping that never joins two tempi
GroupsOfOne(bpms) ==
  [i \in 1..Len(bpms) |-> [bpms |-> <<bpms[i]>>, avgBpm |-> bpms[i],
                           count |-> 1]]

\* groupSimilarBPMs: the group a tempo joins is the first whose average is
\* within the tolerance
RECURSIVE JoinGroup(_, _, _)
JoinGroup(groups, g, bpm) ==
  IF g > Len(groups)
  THEN Append(groups, [bpms |-> <<bpm>>, avgBpm |-> bpm, count |-> 1])
  ELSE IF Abs(bpm - groups[g].avgBpm) <= BpmTolerance
  THEN LET bpms == Append(groups[g].bpms, bpm)
       IN [groups EXCEPT ![g] = [bpms |-> bpms,
                                 avgBpm |-> SumSeq(bpms) \div Len(bpms),
                                 count |-> Len(bpms)]]
  ELSE JoinGroup(groups, g + 1, bpm)

RECURSIVE GroupLoop(_, _, _)
GroupLoop(bpms, i, groups) ==
  IF i > Len(bpms) THEN groups
  ELSE GroupLoop(bpms, i + 1, JoinGroup(groups, 1, bpms[i]))

groupSimilarBPMs(bpms) == GroupLoop(bpms, 1, <<>>)

\* groups.reduce((a, b) => (a.count > b.count ? a : b))
RECURSIVE ReduceBest(_, _, _)
ReduceBest(groups, i, a) ==
  IF i > Len(groups) THEN a
  ELSE IF a.count > groups[i].count
  THEN ReduceBest(groups, i + 1, a)
  ELSE ReduceBest(groups, i + 1, groups[i])

\* the bin of an onset in the phase histogram, or -1 when the index is
\* negative and the energy goes to no bin
PhaseBin(t, bpm) ==
  LET phase == JsRem(t * bpm, 60000)
      idx == JsRem((phase * PhaseBins) \div 60000, PhaseBins)
  IN IF idx >= 0 THEN idx ELSE -1

BinEnergy(events, bpm, b) ==
  SumSeq([i \in 1..Len(events) |->
            IF PhaseBin(events[i].t, bpm) = b THEN events[i].energy ELSE 0])

RECURSIVE PeakLoop(_, _, _, _)
PeakLoop(events, bpm, i, maxIdx) ==
  IF i >= PhaseBins THEN maxIdx
  ELSE IF BinEnergy(events, bpm, i) > BinEnergy(events, bpm, maxIdx)
  THEN PeakLoop(events, bpm, i + 1, i)
  ELSE PeakLoop(events, bpm, i + 1, maxIdx)

\* the score of a numerator, times 12 * 60000 * totalEnergy: positions are in
\* 120000ths of a beat
SignatureScore(events, bpm, offset64, numer) ==
  SumSeq([i \in 1..Len(events) |->
            LET rel == 2 * events[i].t * bpm - 1875 * offset64
                pos == rel % (numer * 120000)
                weight == Max(0, numer * 60000
                                   - Min(Abs(pos), Abs(pos - numer * 120000)))
            IN events[i].energy * weight * (12 \div numer)])

RECURSIVE SignatureLoop(_, _, _, _, _, _)
SignatureLoop(events, bpm, offset64, todo, bestSig, bestScore) ==
  IF todo = <<>> THEN bestSig
  ELSE LET numer == Head(todo)
           score == SignatureScore(events, bpm, offset64, numer)
       IN IF bestScore.none \/ score > bestScore.value
          THEN SignatureLoop(events, bpm, offset64, Tail(todo), numer,
                             [none |-> FALSE, value |-> score])
          ELSE SignatureLoop(events, bpm, offset64, Tail(todo), bestSig,
                             bestScore)

getBeatInfo(events) ==
  IF Len(events) < MinOnsets THEN DefaultBeatInfo
  ELSE LET bpmCandidates == BpmCandidates(events)
       IN IF Len(bpmCandidates) = 0 THEN DefaultBeatInfo
          ELSE LET groups == groupSimilarBPMs(bpmCandidates)
                   best == ReduceBest(groups, 2, groups[1])
                   bpm == Round(best.avgBpm, 1000)
                   confidence ==
                     Min(1000, (best.count * 1500) \div Len(bpmCandidates))
                   maxIdx == PeakLoop(events, Max(1, bpm), 1, 0)
                   downbeatOffset == 2 * maxIdx + 1
                   bestSig == SignatureLoop(events, Max(1, bpm),
                                            downbeatOffset, <<3, 4, 6>>, 4,
                                            [none |-> TRUE, value |-> 0])
               IN [bpm |-> bpm, confidence |-> confidence,
                   downbeatOffset |-> downbeatOffset % 64,
                   timeSignature |-> [numerator |-> bestSig,
                                      denominator |-> 4]]

\* TempoDetector.addAudioFrame(audioData, timestamp)
AddAudioFrame(energy, timestamp) ==
  /\ tempoCount < MaxTempoFrames
  /\ tempoCount' = tempoCount + 1
  /\ tempoTime' = timestamp
  /\ onsetEvents' =
       IF energy * 100 > lastEnergy * OnsetFactor /\ energy > 0
       THEN PushCapped(onsetEvents, [t |-> timestamp, energy |-> energy],
                       MaxOnsets)
       ELSE onsetEvents
  /\ lastEnergy' = energy
  /\ beatInfo' = NoBeatInfo
  /\ TempoOnly

\* TempoDetector.getBeatInfo()
GetBeatInfo ==
  /\ beatInfo = NoBeatInfo
  /\ beatInfo' = getBeatInfo(onsetEvents)
  /\ UNCHANGED <<onsetEvents, lastEnergy, tempoTime, tempoCount>>
  /\ TempoOnly

\* TempoDetector.reset()
TempoReset ==
  /\ onsetEvents' = <<>>
  /\ lastEnergy' = 0
  /\ beatInfo' = NoBeatInfo
  /\ UNCHANGED <<tempoTime, tempoCount>>
  /\ TempoOnly

TempoNext ==
  \/ \E energy \in Energies, d \in TempoSteps :
       AddAudioFrame(energy, tempoTime + d)
  \/ GetBeatInfo
  \/ TempoReset

InitTempo ==
  StreamInit /\ NotesIdle /\ QuantIdle /\ ExtractIdle /\ ChordsIdle
    /\ MatchIdle /\ TempoIdle /\ BarIdle /\ SmoothIdle /\ KeyIdle
    /\ ViterbiIdle

SpecTempo == InitTempo /\ [][TempoNext]_vars

--------------------------------------------------------------------------
(***************************************************************************)
(* Claims about the tempo detector.                                        *)
(***************************************************************************)
\* the recorded onsets are spaced exactly 0.5 s apart
HalfSecondApart ==
  \A i \in 1..(Len(onsetEvents) - 1) :
    onsetEvents[i + 1].t - onsetEvents[i].t = 500

Asked == beatInfo # NoBeatInfo

\* C12 as stated: for two or more recorded onsets spaced exactly 0.5 s apart
\* getBeatInfo returns a bpm of 119 to 121 and a confidence above 0.5.
C12_TwoOnsetsGive120 ==
  (Asked /\ Len(onsetEvents) >= 2 /\ HalfSecondApart)
    => beatInfo.bpm \in 119..121 /\ beatInfo.confidence > 500

\* C12: for four or more recorded onsets spaced exactly 0.5 s apart
\* getBeatInfo returns a bpm of 119 to 121 and a confidence above 0.5; with
\* fewer than four onsets it returns 120 bpm with confidence 0.
C12_FourOnsetsGive120 ==
  (Asked /\ HalfSecondApart)
    => IF Len(onsetEvents) >= MinOnsets
       THEN beatInfo.bpm \in 119..121 /\ beatInfo.confidence > 500
       ELSE beatInfo.bpm = 120 /\ beatInfo.confidence = 0

C12_Witness ==
  Asked /\ Len(onsetEvents) >= MinOnsets /\ HalfSecondApart

\* C16: every BeatInfo getBeatInfo returns has 50 <= bpm <= 200,
\* 0 <= confidence <= 1, 0 <= downbeatOffset < beat period and a numerator
\* of 3, 4 or 6.
C16_BeatInfoInRange ==
  Asked =>
    /\ beatInfo.bpm >= MinBpm /\ beatInfo.bpm <= MaxBpm
    /\ beatInfo.confidence >= 0 /\ beatInfo.confidence <= 1000
    /\ beatInfo.downbeatOffset >= 0 /\ beatInfo.downbeatOffset < 64
    /\ beatInfo.timeSignature.numerator \in {3, 4, 6}

\* getBeatInfo has answered from four onsets or more with a tempo of its own
C16_Witness ==
  /\ Asked
  /\ Len(onsetEvents) >= MinOnsets
  /\ beatInfo.confidence > 0
  /\ beatInfo.bpm # DefaultBpm


--------------------------------------------------------------------------
(***************************************************************************)
(* Claims about what processAudioFrame reports.                            *)
(***************************************************************************)
\* C13: every frame processAudioFrame processes is reported through
\* onChordDetected, also when the smoothed result is 'N/C' or its confidence
\* is at or below 0.3.
C13_EveryFrameNotified == tempoFrames # <<>> => chordNotified


--------------------------------------------------------------------------
(***************************************************************************)
(* Claims about the key detector's history.                                *)
(***************************************************************************)
\* C17: after any sequence of addChromaFrame calls the chroma history holds
\* at most 20 frames, and they are exactly the most recent min(n, 20) frames
\* in arrival order.
C17_HistoryIsLatestFrames ==
  LET len == Len(chromaHistory)
  IN /\ len <= HistorySize
     /\ len = Min(framesAdded, HistorySize)
     /\ \A i \in 1..len : chromaHistory[i].call = framesAdded - len + i

\* more frames have arrived than the history holds
C17_Witness ==
  framesAdded > HistorySize + 1 /\ Len(chromaHistory) = HistorySize


--------------------------------------------------------------------------
(***************************************************************************)
(* timeToBarBeat (index.ts helpers).  Times are in milliseconds; beatFloat *)
(* is in BeatUnits-ths of a beat, so that tSec / beatSec is exact:         *)
(* tSec / (60 / bpm * (4 / denominator)) = tSec * bpm * denominator / 240. *)
(***************************************************************************)
BeatUnits == 240000

\* the times handed in are multiples of BarTimeStep, up to MaxBarSteps of them
BarTimeStep == 50
MaxBarSteps == 80
BarTimes == {BarTimeStep * k : k \in 0..MaxBarSteps}

BarTempos == {50, 90, 120, 200}
BarNumerators == {3, 4, 6}

BarBeatInfos ==
  [bpm : BarTempos, confidence : {0}, downbeatOffset : {0},
   timeSignature : [numerator : BarNumerators, denominator : Denominators]]

\* globalBeat = tSec / beatSec
globalBeat(tSec, i) == tSec * Max(1, i.bpm) * i.timeSignature.denominator

\* a bar and beat counted from 0
timeToBarBeatFromZero(tSec, i) ==
  LET beatsPerBar == i.timeSignature.numerator
  IN [bar |-> globalBeat(tSec, i) \div (BeatUnits * beatsPerBar),
      beat |-> (globalBeat(tSec, i) % (BeatUnits * beatsPerBar))
                 \div BeatUnits,
      beatFloat |-> globalBeat(tSec, i)]

timeToBarBeat(tSec, i) ==
  LET beatsPerBar == i.timeSignature.numerator
      bar == (globalBeat(tSec, i) \div (BeatUnits * beatsPerBar)) + 1
      beat == ((globalBeat(tSec, i) % (BeatUnits * beatsPerBar))
                 \div BeatUnits) + 1
  IN [bar |-> bar, beat |-> beat, beatFloat |-> globalBeat(tSec, i)]

TimeToBarBeat ==
  /\ barStage = "input"
  /\ barStage' = "done"
  /\ barBeat' = timeToBarBeat(barTime, barInfo)
  /\ UNCHANGED <<barTime, barInfo>>
  /\ BarOnly

BarInit ==
  /\ barTime \in BarTimes
  /\ barInfo \in BarBeatInfos
  /\ barStage = "input"
  /\ barBeat = NoBarBeat

BarNext == TimeToBarBeat

InitBar ==
  StreamInit /\ NotesIdle /\ QuantIdle /\ ExtractIdle /\ ChordsIdle
    /\ MatchIdle /\ TempoIdle /\ BarInit /\ SmoothIdle /\ KeyIdle
    /\ ViterbiIdle

SpecBar == InitBar /\ [][BarNext]_vars

--------------------------------------------------------------------------
(***************************************************************************)
(* Claims about timeToBarBeat.                                             *)
(***************************************************************************)
\* the beat periods of the BeatInfo that have wholly elapsed at t
WholeBeats(t, i) ==
  CHOOSE k \in 0..(t + 1) :
    /\ k * 60000 * 4 <= t * i.bpm * i.timeSignature.denominator
    /\ (k + 1) * 60000 * 4 > t * i.bpm * i.timeSignature.denominator

\* C18: for every time t >= 0 and every BeatInfo timeToBarBeat returns
\* bar >= 1 and a beat of 1 to the numerator, with (bar - 1) * numerator +
\* (beat - 1) the number of whole beats elapsed at t; at 120 bpm in 4/4,
\* t = 0 gives bar 1 beat 1 and t = 3.1 beats (1.55 s) gives bar 1 beat 4.
C18_BarBeatCountsWholeBeats ==
  barStage = "done" =>
    LET numerator == barInfo.timeSignature.numerator
        fourFour120 == /\ barInfo.bpm = 120
                       /\ numerator = 4
                       /\ barInfo.timeSignature.denominator = 4
    IN /\ barBeat.bar >= 1
       /\ barBeat.beat >= 1
       /\ barBeat.beat <= numerator
       /\ (barBeat.bar - 1) * numerator + (barBeat.beat - 1)
            = WholeBeats(barTime, barInfo)
       /\ (fourFour120 /\ barTime = 0)
            => barBeat.bar = 1 /\ barBeat.beat = 1
       /\ (fourFour120 /\ barTime = 1550)
            => barBeat.bar = 1 /\ barBeat.beat = 4

\* a time past the first bar and off the bar line
C18_Witness ==
  barStage = "done" /\ barBeat.bar > 1 /\ barBeat.beat > 1


--------------------------------------------------------------------------
(***************************************************************************)
(* Claims about segmentIntoNotes and removeOutliers.                       *)
(***************************************************************************)
\* frame i of the track is voiced and has a MIDI pitch
Sounding(track, i) == track[i].voiced /\ track[i].midi # 0

\* frames i and i + 1 belong to one run: both sound, at the same pitch
SameRun(track, i) ==
  /\ Sounding(track, i)
  /\ Sounding(track, i + 1)
  /\ track[i].midi = track[i + 1].midi

\* the frames at which a maximal run begins, and at which the run of i ends
NoteRunStarts(track) ==
  {i \in 1..Len(track) :
     Sounding(track, i) /\ (i = 1 \/ ~SameRun(track, i - 1))}

NoteRunEnd(track, i) ==
  CHOOSE j \in i..Len(track) :
    /\ \A k \in i..(j - 1) : SameRun(track, k)
    /\ j = Len(track) \/ ~SameRun(track, j)

NoteRunStart(track, k) ==
  CHOOSE i \in NoteRunStarts(track) :
    Cardinality({j \in NoteRunStarts(track) : j <= i}) = k

\* C19: segmentIntoNotes emits exactly one note for each maximal run of
\* consecutive voiced frames with the same MIDI pitch, in track order, with
\* the run's pitch, its start the time of the run's first frame and its end
\* the time of the run's last frame; a pitch change or an unvoiced frame
\* closes the open note, and a note still open when the track ends is
\* emitted too.
C19_OneNotePerRun ==
  noteStage \in {"segmented", "refined"} =>
    /\ Len(notes) = Cardinality(NoteRunStarts(pitchTrack))
    /\ \A k \in 1..Len(notes) :
         LET i == NoteRunStart(pitchTrack, k)
         IN notes[k] = [start |-> pitchTrack[i].time,
                        end |-> pitchTrack[NoteRunEnd(pitchTrack, i)].time,
                        midi |-> pitchTrack[i].midi]

\* a track with a pitch change inside a voiced stretch, an unvoiced frame
\* after a note, and a note of more than one frame open at its end
C19_Witness ==
  /\ noteStage = "segmented"
  /\ Len(notes) >= 3
  /\ \E i \in 1..(Len(pitchTrack) - 1) :
       /\ Sounding(pitchTrack, i) /\ Sounding(pitchTrack, i + 1)
       /\ ~SameRun(pitchTrack, i)
  /\ \E i \in 2..Len(pitchTrack) :
       Sounding(pitchTrack, i - 1) /\ ~Sounding(pitchTrack, i)
  /\ Sounding(pitchTrack, Len(pitchTrack))
  /\ Last(notes).end > Last(notes).start


\* note i of the list has a predecessor and a successor and is more than an
\* octave away from both
IsOutlier(ns, i) ==
  /\ 1 < i
  /\ i < Len(ns)
  /\ Abs(ns[i].midi - ns[i - 1].midi) > 12
  /\ Abs(ns[i].midi - ns[i + 1].midi) > 12

NonOutliers(ns) == {i \in 1..Len(ns) : ~IsOutlier(ns, i)}

NonOutlier(ns, k) ==
  CHOOSE i \in NonOutliers(ns) :
    Cardinality({j \in NonOutliers(ns) : j <= i}) = k

\* C20: removeOutliers drops a note exactly when it has a predecessor and a
\* successor in the input list and its pitch differs by more than 12
\* semitones from both; the first and the last note are never dropped, and a
\* list of at most two notes is returned unchanged.
C20_DropsExactlyOutliers ==
  noteStage = "refined" =>
    /\ Len(refinedNotes) = Cardinality(NonOutliers(mergedNotes))
    /\ \A k \in 1..Len(refinedNotes) :
         refinedNotes[k] = mergedNotes[NonOutlier(mergedNotes, k)]
    /\ mergedNotes # <<>> =>
         /\ refinedNotes[1] = mergedNotes[1]
         /\ Last(refinedNotes) = Last(mergedNotes)
    /\ Len(mergedNotes) <= 2 => refinedNotes = mergedNotes

\* removeOutliers has dropped the middle one of three notes
C20_Witness ==
  /\ noteStage = "refined"
  /\ Len(mergedNotes) = 3
  /\ Len(refinedNotes) = 2

--------------------------------------------------------------------------
(***************************************************************************)
(* A ChordSmoother as AudioProcessor makes it: the constructor and          *)
(* updateConfig hand it Math.ceil(smoothingStrength * 10) as bufferSize.    *)
(* smoothingStrength is in hundredths.                                     *)
(***************************************************************************)
DefaultSmoothingStrength == 50    \* config.smoothingStrength || 0.5

\* addObservation calls made on one smoother
MaxObservations == 12

SmoothingStrengths == {0, 5, 12, 20, 45, 50, 75, 99, 100}

\* Math.round(smoothingStrength * 10)
RoundedBufferSize(strength) == Round(strength, 10)

\* Math.ceil(smoothingStrength * 10)
CeilBufferSize(strength) == (strength + 9) \div 10

\* new AudioProcessor(config): a strength of 0 is replaced by the default
Constructed(strength) ==
  IF strength = 0 THEN DefaultSmoothingStrength ELSE strength

\* the observation of the n-th call
Observation(n) == [name |-> "X", confidence |-> 900, call |-> n]

\* AudioProcessor.updateConfig({smoothingStrength})
UpdateConfig(strength) ==
  /\ smoothingStrength' = strength
  /\ bufferSize' = CeilBufferSize(strength)
  /\ smoothBuffer' = <<>>
  /\ observations' = 0
  /\ smoothed' = ""
  /\ SmoothOnly

\* ChordSmoother.addObservation
AddObservation ==
  /\ observations < MaxObservations
  /\ observations' = observations + 1
  /\ smoothBuffer' = PushCapped(smoothBuffer, Observation(observations + 1),
                                bufferSize)
  /\ smoothed' = getSmoothedChord(smoothBuffer')
  /\ UNCHANGED <<smoothingStrength, bufferSize>>
  /\ SmoothOnly

SmoothInit ==
  /\ \E strength \in SmoothingStrengths :
       /\ smoothingStrength = Constructed(strength)
       /\ bufferSize = CeilBufferSize(Constructed(strength))
  /\ smoothBuffer = <<>>
  /\ observations = 0
  /\ smoothed = ""

SmoothNext ==
  \/ \E strength \in SmoothingStrengths : UpdateConfig(strength)
  \/ AddObservation

\* getSmoothedChord on the buffers a default smoother can hold
MaxBuffered == 5
SmootherNames == {"X", "Y"}
SmootherConfidences == {200, 400, 900}
SmootherMatches ==
  {NoChord} \cup [name : SmootherNames, confidence : SmootherConfidences]

Buffered(ms) ==
  [i \in 1..Len(ms) |->
     [name |-> ms[i].name, confidence |-> ms[i].confidence, call |-> i]]

GetSmoothedChord ==
  /\ smoothed = ""
  /\ smoothed' = getSmoothedChord(smoothBuffer)
  /\ UNCHANGED <<smoothingStrength, bufferSize, smoothBuffer, observations>>
  /\ SmoothOnly

BufferInit ==
  /\ smoothingStrength = DefaultSmoothingStrength
  /\ bufferSize = CeilBufferSize(DefaultSmoothingStrength)
  /\ \E ms \in SeqsUpTo(SmootherMatches, MaxBuffered) :
       /\ smoothBuffer = Buffered(ms)
       /\ observations = Len(ms)
  /\ smoothed = ""

BufferNext == GetSmoothedChord

InitBuffer ==
  StreamInit /\ NotesIdle /\ QuantIdle /\ ExtractIdle /\ ChordsIdle
    /\ MatchIdle /\ TempoIdle /\ BarIdle /\ BufferInit /\ KeyIdle
    /\ ViterbiIdle

SpecBuffer == InitBuffer /\ [][BufferNext]_vars

InitSmooth ==
  StreamInit /\ NotesIdle /\ QuantIdle /\ ExtractIdle /\ ChordsIdle
    /\ MatchIdle /\ TempoIdle /\ BarIdle /\ SmoothInit /\ KeyIdle
    /\ ViterbiIdle

SpecSmooth == InitSmooth /\ [][SmoothNext]_vars

--------------------------------------------------------------------------
(***************************************************************************)
(* Claims about the rolling smoother.                                      *)
(***************************************************************************)
\* C21: for every smoothingStrength in [0, 1], after any sequence of
\* addObservation calls the smoother holds exactly the last min(n, N)
\* observations, N = round(smoothingStrength * 10), and so never more than
\* 10.
C21_HoldsLastRoundedN ==
  LET len == Len(smoothBuffer)
  IN /\ len = Min(observations, RoundedBufferSize(smoothingStrength))
     /\ \A i \in 1..len : smoothBuffer[i].call = observations - len + i
     /\ len <= 10

\* the labels in the buffer, how often a label occurs and the sum of its
\* confidences (its count times its mean confidence)
BufferedLabels == {smoothBuffer[i].name : i \in 1..Len(smoothBuffer)}

Occurrences(label) ==
  Cardinality({i \in 1..Len(smoothBuffer) : smoothBuffer[i].name = label})

RECURSIVE ConfidenceSum(_, _)
ConfidenceSum(label, i) ==
  IF i = 0 THEN 0
  ELSE ConfidenceSum(label, i - 1)
         + (IF smoothBuffer[i].name = label
            THEN smoothBuffer[i].confidence ELSE 0)

LabelScore(label) == ConfidenceSum(label, Len(smoothBuffer))

\* the labels whose mean confidence is above the threshold of 0.3
ConfidentLabels ==
  {label \in BufferedLabels : LabelScore(label) > 300 * Occurrences(label)}

\* C22: getSmoothedChord returns the buffered label with the highest count
\* times mean confidence among the labels whose mean confidence is strictly
\* above the threshold, and 'N/C' exactly when no buffered label has a mean
\* confidence above the threshold.
C22_PicksBestConfidentLabel ==
  smoothed # "" =>
    /\ (smoothed = "N/C") <=> (ConfidentLabels = {})
    /\ ConfidentLabels # {} =>
         /\ smoothed \in ConfidentLabels
         /\ \A label \in ConfidentLabels :
              LabelScore(smoothed) >= LabelScore(label)

\* two labels pass the threshold with different scores, and the winner is
\* neither the more frequent nor the latest one
C22_Witness ==
  /\ smoothed \in SmootherNames
  /\ Cardinality(ConfidentLabels) = 2
  /\ \E label \in ConfidentLabels :
       /\ LabelScore(label) < LabelScore(smoothed)
       /\ Occurrences(label) > Occurrences(smoothed)
       /\ Last(smoothBuffer).name = label


--------------------------------------------------------------------------
(***************************************************************************)
(* Beat quantization: the length of the spans and the grid they lie on.    *)
(***************************************************************************)
\* C23: for every input span and every mode (beat, half, bar), each span
\* produced by beat quantization is at least one beat long: endBeat -
\* startBeat >= 1 (two half beats), and endSec - startSec is at least one
\* beat period; the spans processFile's quantize step leaves are at least
\* one beat long as well.
C23_SpansAtLeastOneBeat ==
  /\ quantStage = "quantized" =>
       \A k \in 1..Len(blocks) :
         /\ blocks[k].endBeat - blocks[k].startBeat >= 2
         /\ blocks[k].endSec - blocks[k].startSec >= beatSec(info)
  /\ (quantStage = "file" /\ Len(segments) > 0 /\ info.confidence > 0) =>
       \A k \in 1..Len(fileSegments) :
         fileSegments[k].endTime - fileSegments[k].startTime
           >= fileBeatSec(info)

\* bound of the segment lists drawn as inputs of the grid
MaxGridSegments == 1

\* downbeatOffset lies in [0, beatSec); the beat is 250 or 500 ms long
DownbeatOffsets == {0, 125}

\* a BeatInfo with its phase offset
OffsetBeatInfos ==
  [bpm : Tempos, confidence : TempoConfidences,
   downbeatOffset : DownbeatOffsets,
   timeSignature : [numerator : Numerators, denominator : Denominators]]

GridInit ==
  /\ \E shapes \in SeqsUpTo(SegmentShapes, MaxGridSegments) :
       segments = LayoutSegments(shapes, 0)
  /\ info \in OffsetBeatInfos
  /\ mode \in Modes
  /\ quantStage = "input"
  /\ blocks = <<>>
  /\ requantized = <<>>
  /\ fileSegments = <<>>

InitGrid == StreamInit /\ NotesIdle /\ GridInit /\ OthersIdle

SpecGrid == InitGrid /\ [][QuantNext]_vars

\* t lies on the grid offset + k * raster, k an integer
OnGrid(t, offset, raster) == (t - offset) % raster = 0

\* no point of a grid of this raster is nearer to t than out
Nearest(out, t, raster) == 2 * Abs(out - t) <= raster

\* the length of one step of the mode, in ms
stepSec(i, m) == (beatSec(i) * step(i, m)) \div 2

\* C24: for every BeatInfo, including one with a non-zero downbeatOffset,
\* each start and end that beat quantization returns lies at downbeatOffset
\* + k * step * beatPeriod for an integer k; each start is the grid point
\* nearest to the start it was given, and so is each end that the minimum
\* length did not move.
C24_SnapsToOffsetGrid ==
  /\ (quantStage = "quantized" /\ Len(segments) = 1) =>
       \A k \in 1..Len(blocks) :
         /\ OnGrid(blocks[k].startSec, info.downbeatOffset,
                   stepSec(info, mode))
         /\ OnGrid(blocks[k].endSec, info.downbeatOffset,
                   stepSec(info, mode))
         /\ Nearest(blocks[k].startSec, segments[k].start,
                    stepSec(info, mode))
         /\ \/ Nearest(blocks[k].endSec, segments[k].end,
                       stepSec(info, mode))
            \/ blocks[k].endSec = blocks[k].startSec + stepSec(info, mode)
  /\ (quantStage = "file" /\ Len(segments) = 1 /\ info.confidence > 0) =>
       \A k \in 1..Len(fileSegments) :
         /\ OnGrid(fileSegments[k].startTime, info.downbeatOffset,
                   fileBeatSec(info))
         /\ OnGrid(fileSegments[k].endTime, info.downbeatOffset,
                   fileBeatSec(info))
         /\ Nearest(fileSegments[k].startTime, segments[k].start,
                    fileBeatSec(info))
         /\ \/ Nearest(fileSegments[k].endTime, segments[k].end,
                       fileBeatSec(info))
            \/ fileSegments[k].endTime
                 = fileSegments[k].startTime + fileBeatSec(info)


--------------------------------------------------------------------------
(***************************************************************************)
(* Key estimation from one chroma vector: chromaToKey (TypeScript) and     *)
(* KeyDetector.findBestKey (Swift).  The profiles are in hundredths.  A    *)
(* correlation n / sqrt(d) is kept as the record [n, d]: correlations are  *)
(* compared exactly, without a square root and without rounding.           *)
(***************************************************************************)
majorProfile == <<635, 223, 348, 233, 438, 409, 252, 519, 239, 366, 229, 288>>

minorProfile == <<633, 268, 352, 538, 260, 353, 254, 475, 398, 269, 334, 317>>

PITCH_CLASSES ==
  <<"C", "C#", "D", "D#", "E", "F", "F#", "G", "G#", "A", "A#", "B">>

majorKeyNames ==
  <<"C", "Db", "D", "Eb", "E", "F", "F#", "G", "Ab", "A", "Bb", "B">>

minorKeyNames ==
  <<"C", "C#", "D", "D#", "E", "F", "F#", "G", "G#", "A", "Bb", "B">>

\* the levels of one chroma bin
ChromaLevels == {0, 1}

\* Double.infinity negated: below every correlation
MinusInfinity == [n |-> -2, d |-> 1]

ZeroCorrelation == [n |-> 0, d |-> 1]

\* a / b > c / d for a, c >= 0 and b, d > 0, by continued fractions
RECURSIVE FracGreater(_, _, _, _)
FracGreater(a, b, c, d) ==
  IF a \div b # c \div d THEN a \div b > c \div d
  ELSE IF a % b = 0 THEN FALSE
  ELSE IF c % d = 0 THEN TRUE
  ELSE FracGreater(d, c % d, b, a % b)

\* x > y on correlations
Greater(x, y) ==
  IF x.n > 0 /\ y.n > 0 THEN FracGreater(x.n * x.n, x.d, y.n * y.n, y.d)
  ELSE IF x.n < 0 /\ y.n < 0 THEN FracGreater(y.n * y.n, y.d, x.n * x.n, x.d)
  ELSE x.n > y.n

\* rotateArray(arr, n) = [...arr.slice(rotation), ...arr.slice(0, rotation)]
rotateArray(arr, n) ==
  LET rotation == ((n % 12) + 12) % 12
  IN [i \in 0..11 |-> arr[((i + rotation) % 12) + 1]]

\* computeKeyScore: transposedProfile[i] = profile[(i - tonic + 12) % 12]
transposedProfile(profile, tonic) ==
  [i \in 0..11 |-> profile[((i - tonic + 12) % 12) + 1]]

\* correlate (TypeScript) and KeyDetector.correlation (Swift): numerator and
\* both sums of squares are taken times 12, which leaves the quotient as it
\* is; 0 when a sum of squares is 0
correlate(a, b) ==
  LET sumA == SumBins(a, 0)
      sumB == SumBins(b, 0)
      numerator == 12 * SumBins([i \in 0..11 |-> a[i] * b[i]], 0) - sumA * sumB
      denomA == 12 * SumBins([i \in 0..11 |-> a[i] * a[i]], 0) - sumA * sumA
      denomB == 12 * SumBins([i \in 0..11 |-> b[i] * b[i]], 0) - sumB * sumB
  IN IF denomA * denomB = 0 THEN ZeroCorrelation
     ELSE [n |-> numerator, d |-> denomA * denomB]

\* chromaToKey: "Test all 24 keys", root by root, major then minor
RECURSIVE KeyLoop(_, _, _)
KeyLoop(ch, root, best) ==
  IF root > 11 THEN best
  ELSE LET majorCorr == correlate(ch, rotateArray(majorProfile, root))
           minorCorr == correlate(ch, rotateArray(minorProfile, root))
           major == IF Greater(majorCorr, best.confidence)
                    THEN [key |-> PITCH_CLASSES[root + 1],
                          confidence |-> majorCorr]
                    ELSE best
       IN IF Greater(minorCorr, major.confidence)
          THEN KeyLoop(ch, root + 1,
                       [key |-> PITCH_CLASSES[root + 1] \o "m",
                        confidence |-> minorCorr])
          ELSE KeyLoop(ch, root + 1, major)

chromaToKey(ch) ==
  LET best == KeyLoop(ch, 0, [key |-> "", confidence |-> MinusOne])
  IN [key |-> best.key,
      confidence |-> IF best.confidence.n < 0 THEN ZeroCorrelation
                     ELSE best.confidence]

\* findBestKey: "Test all major keys", then "Test all minor keys"
RECURSIVE TonicLoop(_, _, _, _, _, _)
TonicLoop(ch, profile, names, keyMode, tonic, best) ==
  IF tonic > 11 THEN best
  ELSE LET score == correlate(ch, transposedProfile(profile, tonic))
       IN IF Greater(score, best.score)
          THEN TonicLoop(ch, profile, names, keyMode, tonic + 1,
                         [key |-> [tonic |-> names[tonic + 1], mode |-> keyMode],
                          score |-> score])
          ELSE TonicLoop(ch, profile, names, keyMode, tonic + 1, best)

findBestKey(ch) ==
  LET start == [key |-> [tonic |-> "C", mode |-> "major"],
                score |-> MinusInfinity]
      majors == TonicLoop(ch, majorProfile, majorKeyNames, "major", 0, start)
  IN TonicLoop(ch, minorProfile, minorKeyNames, "minor", 0, majors)

ChromaToKey ==
  /\ keyStage = "input"
  /\ keyStage' = "chromaToKey"
  /\ bestKey' = chromaToKey(keyChroma).key
  /\ bestConfidence' = chromaToKey(keyChroma).confidence
  /\ UNCHANGED keyChroma
  /\ KeyOnly

FindBestKey ==
  /\ keyStage = "input"
  /\ keyStage' = "findBestKey"
  /\ bestKey' = findBestKey(keyChroma).key
  /\ bestConfidence' = findBestKey(keyChroma).score
  /\ UNCHANGED keyChroma
  /\ KeyOnly

KeyInit ==
  /\ keyChroma \in [0..11 -> ChromaLevels]
  /\ keyStage = "input"
  /\ bestKey = ""
  /\ bestConfidence = MinusOne

KeyNext == ChromaToKey \/ FindBestKey

InitKey ==
  StreamInit /\ NotesIdle /\ QuantIdle /\ ExtractIdle /\ ChordsIdle
    /\ MatchIdle /\ TempoIdle /\ BarIdle /\ SmoothIdle /\ KeyInit
    /\ ViterbiIdle

SpecKey == InitKey /\ [][KeyNext]_vars

\* the 24 pairs of a tonic and a mode, and their place in the order major
\* before minor, then ascending tonic
KeyPairs == (0..11) \X {"major", "minor"}

Rank(pair) == (IF pair[2] = "minor" THEN 12 ELSE 0) + pair[1]

\* the correlation of the chroma with the profile of the mode, rotated so
\* that the weight of the tonic lies on the pitch class of the tonic
KeyCorrelations(ch) ==
  [pair \in KeyPairs |->
     correlate(ch, [i \in 0..11 |->
                      (IF pair[2] = "minor" THEN minorProfile
                       ELSE majorProfile)[((i - pair[1] + 12) % 12) + 1]])]

\* the first, in that order, of the pairs of maximal correlation
FirstMaximal(ch) ==
  LET corr == KeyCorrelations(ch)
      maximal == {p \in KeyPairs :
                    \A q \in KeyPairs : ~Greater(corr[q], corr[p])}
  IN CHOOSE p \in maximal : \A q \in maximal : Rank(p) <= Rank(q)

\* C25: key estimation returns the (tonic, mode) pair whose correlation is
\* maximal over all 24 pairs, the first of them in the order major before
\* minor, then ascending tonic, when several share the maximum; for a
\* chroma whose 24 correlations are equal that is C major.
C25_ReturnsFirstMaximalKey ==
  /\ keyStage = "chromaToKey" =>
       LET best == FirstMaximal(keyChroma)
       IN bestKey = IF best[2] = "minor"
                    THEN PITCH_CLASSES[best[1] + 1] \o "m"
                    ELSE PITCH_CLASSES[best[1] + 1]
  /\ keyStage = "findBestKey" =>
       LET best == FirstMaximal(keyChroma)
       IN bestKey = [tonic |-> (IF best[2] = "minor" THEN minorKeyNames
                                ELSE majorKeyNames)[best[1] + 1],
                     mode |-> best[2]]


--------------------------------------------------------------------------
(***************************************************************************)
(* The spacing of the recorded onsets.  processFile and the stream hand    *)
(* the detector one frame per hop: 1024 samples at 44.1 kHz are 23 ms,     *)
(* 4096 samples 93 ms.                                                     *)
(***************************************************************************)
MinOnsetInterval == 50   \* ms

\* the timestamp of a frame minus that of the frame before, one hop
HopSteps == {23, 93}

OnsetNext ==
  \E energy \in Energies, d \in HopSteps : AddAudioFrame(energy, tempoTime + d)

SpecOnsets == InitTempo /\ [][OnsetNext]_vars

\* C26: after any sequence of addAudioFrame calls with increasing
\* timestamps, any two consecutive recorded onsets are at least 50 ms apart.
C26_OnsetsFiftyMsApart ==
  \A i \in 1..(Len(onsetEvents) - 1) :
    onsetEvents[i + 1].t - onsetEvents[i].t >= MinOnsetInterval


--------------------------------------------------------------------------
(***************************************************************************)
(* ChordViterbiDecoder: the transition matrix.  A chord name is the        *)
(* sequence of its characters; weights are in thousandths, and an entry of *)
(* the normalized matrix is the fraction num / den.                        *)
(***************************************************************************)
\* bound of the vocabularies handed to the constructor
MaxVocabulary == 3

\* C, C#, Dm, E, F#m, G, A#
VocabularyNames ==
  {<<"C">>, <<"C", "#">>, <<"D", "m">>, <<"E">>, <<"F", "#", "m">>, <<"G">>,
   <<"A", "#">>}

SmallTransition == 100     \* Array(n).fill(0.1)
SelfTransition == 700      \* matrix[i][i] = 0.7

\* Array.indexOf, from 0; -1 when x is not in s
RECURSIVE IndexFrom(_, _, _)
IndexFrom(s, x, i) ==
  IF i > Len(s) THEN -1
  ELSE IF s[i] = x THEN i - 1
  ELSE IndexFrom(s, x, i + 1)

indexOf(s, x) == IndexFrom(s, x, 1)

\* String.charAt(0)
charAt0(name) == name[1]

getSemitoneDistance(from, to) ==
  LET fromIndex == indexOf(PITCH_CLASSES, from)
      toIndex == indexOf(PITCH_CLASSES, to)
  IN IF fromIndex = -1 \/ toIndex = -1 THEN 6
     ELSE Min(Abs(toIndex - fromIndex), 12 - Abs(toIndex - fromIndex))

\* the bonus of a distance between roots, in halves: 2.0, 1.5 or 1.0
BonusOf(semitones) ==
  IF semitones = 7 \/ semitones = 5 THEN 4
  ELSE IF semitones = 2 \/ semitones = 4 THEN 3
  ELSE 2

\* getTransitionBonus, in halves
getTransitionBonus(from, to) ==
  IF from = to THEN 2
  ELSE BonusOf(getSemitoneDistance(charAt0(from), charAt0(to)))

\* the matrix before "Normalize rows"
Weights(names) ==
  [i \in 1..Len(names) |->
     [j \in 1..Len(names) |->
        ((IF i = j THEN SelfTransition ELSE SmallTransition)
           * getTransitionBonus(names[i], names[j])) \div 2]]

buildTransitionMatrix(names) ==
  LET matrix == Weights(names)
  IN [i \in 1..Len(names) |->
        [j \in 1..Len(names) |->
           [num |-> matrix[i][j], den |-> SumSeq(matrix[i])]]]

\* new ChordViterbiDecoder(chordNames)
BuildTransitionMatrix ==
  /\ transitionMatrix = <<>>
  /\ transitionMatrix' = buildTransitionMatrix(chordNames)
  /\ UNCHANGED chordNames
  /\ ViterbiOnly

\* vocabularies of one to MaxVocabulary different names
ViterbiInit ==
  /\ chordNames \in {names \in SeqsUpTo(VocabularyNames, MaxVocabulary) :
                       /\ Len(names) >= 1
                       /\ \A i, j \in 1..Len(names) :
                            names[i] = names[j] => i = j}
  /\ transitionMatrix = <<>>

ViterbiNext == BuildTransitionMatrix

InitViterbi ==
  StreamInit /\ NotesIdle /\ QuantIdle /\ ExtractIdle /\ ChordsIdle
    /\ MatchIdle /\ TempoIdle /\ BarIdle /\ SmoothIdle /\ KeyIdle
    /\ ViterbiInit

SpecViterbi == InitViterbi /\ [][ViterbiNext]_vars

\* the root of a chord name, its sharp included, as a pitch class 0..11
RootOf(name) ==
  IF Len(name) >= 2 /\ name[2] = "#"
  THEN indexOf(PITCH_CLASSES, name[1] \o "#")
  ELSE indexOf(PITCH_CLASSES, name[1])

RootDistance(from, to) ==
  Min(Abs(RootOf(to) - RootOf(from)), 12 - Abs(RootOf(to) - RootOf(from)))

\* C27: for every ordered pair of different chord labels, sharp roots
\* included, the weight before normalization is 0.1 times 2 when the roots
\* are a perfect fifth apart, times 1.5 when they are a whole step or a
\* major third apart, and times 1 otherwise; the self-transition weight is
\* 0.7; and every row of the normalized matrix sums to 1.
C27_BonusFollowsRootMotion ==
  transitionMatrix # <<>> =>
    \A i \in 1..Len(chordNames) :
      /\ transitionMatrix[i][i].num = SelfTransition
      /\ \A j \in 1..Len(chordNames) :
           /\ transitionMatrix[i][j].den > 0
           /\ transitionMatrix[i][j].den
                = SumSeq([k \in 1..Len(chordNames) |->
                            transitionMatrix[i][k].num])
           /\ i # j =>
                transitionMatrix[i][j].num
                  = (SmallTransition
                       * BonusOf(RootDistance(chordNames[i], chordNames[j])))
                      \div 2


--------------------------------------------------------------------------
(***************************************************************************)
(* Claims about ChromaWorkerClient and about what runs after stopStream.   *)
(***************************************************************************)
\* C28: every result that processFrame delivers was computed from the frame
\* of the call it resolves: the chroma that a call hands on is the chroma of
\* the call's own frame, under every interleaving of requests, worker
\* replies, error replies and timeouts.
C28_ResultBelongsToItsRequest ==
  \A i \in 1..Len(chromaHistory) :
    chromaHistory[i].chroma = chromaHistory[i].call


\* The second ChromaWorkerClient.  Its processFrame sets no timeout and has
\* no catch around postMessage: when postMessage throws inside the promise's
\* executor the promise is rejected, and the callback already set stays in
\* the Map.  processAudioFrame reports a rejected call through onError and
\* does nothing else.
PostFrame(dt, postOk, match) ==
  /\ isStreaming
  /\ Len(calls) < MaxFrames
  /\ StreamOnly
  /\ LET k == Len(calls) + 1
         timestamp == mediaTime + dt
     IN /\ mediaTime' = timestamp
        /\ UNCHANGED <<isStreaming, worker, timers>>
        /\ IF worker
           THEN /\ calls' = Append(calls,
                               [ts |-> timestamp,
                                st |-> IF postOk THEN "awaiting"
                                       ELSE "rejected"])
                /\ callbackId' = callbackId + 1
                /\ callbacks' = Append(callbacks, [id |-> callbackId, call |-> k])
                /\ inbox' = IF postOk THEN Append(inbox, k) ELSE inbox
                /\ match = NoChord
                /\ UNCHANGED <<lastChord, lastSegmentTime, currentSegment, buffer,
                               chromaHistory, tempoFrames, chordNotified,
                               delivered>>
           ELSE /\ postOk
                /\ calls' = Append(calls, [ts |-> timestamp, st |-> "resolved"])
                /\ UNCHANGED <<callbackId, callbacks, inbox>>
                /\ Resume(k, k, match)

\* worker.onmessage of the second client: an error reply is dropped; any
\* other reply goes to the first callback of the Map, which is the resolve
\* of its promise; resolving a promise that was rejected does nothing
ReplyToFirst(isError, match) ==
  /\ worker
  /\ inbox # <<>>
  /\ StreamOnly
  /\ inbox' = Tail(inbox)
  /\ UNCHANGED <<isStreaming, worker, callbackId, mediaTime, timers>>
  /\ IF isError \/ callbacks = <<>>
     THEN /\ match = NoChord
          /\ UNCHANGED <<callbacks, calls, lastChord, lastSegmentTime,
                         currentSegment, buffer, chromaHistory, tempoFrames,
                         chordNotified, delivered>>
     ELSE LET first == Head(callbacks)
          IN /\ callbacks' = Tail(callbacks)
             /\ IF calls[first.call].st = "rejected"
                THEN /\ match = NoChord
                     /\ UNCHANGED <<calls, lastChord, lastSegmentTime,
                                    currentSegment, buffer, chromaHistory,
                                    tempoFrames, chordNotified, delivered>>
                ELSE /\ calls' = Resolved(first.call)
                     /\ Resume(first.call, Head(inbox), match)

NextNoTimeout ==
  \/ StartStream
  \/ StopStream
  \/ \E dt \in TimeSteps, postOk \in BOOLEAN, match \in Matches :
       PostFrame(dt, postOk, match)
  \/ \E isError \in BOOLEAN, match \in Matches : ReplyToFirst(isError, match)
  \/ Terminate

SpecNoTimeout == Init /\ [][NextNoTimeout]_vars

HasCallback(k) == \E i \in 1..Len(callbacks) : callbacks[i].call = k

HasTimer(k) == \E i \in 1..Len(timers) : timers[i].call = k

\* C29: every processFrame call resolves, once, and none rejects, whatever
\* the worker does: no call is rejected; a call that is pending has a
\* callback in the Map or a timeout running, so that something is left to
\* resolve it; and a call that has resolved has neither.
C29_EveryCallCanResolveOnce ==
  \A k \in 1..Len(calls) :
    /\ calls[k].st # "rejected"
    /\ calls[k].st = "awaiting" => HasCallback(k) \/ HasTimer(k)
    /\ calls[k].st = "resolved" => ~HasCallback(k) /\ ~HasTimer(k)

\* C30: after stopStream and until the next startStream no segment is handed
\* to onSegmentAdded, onChordDetected is not called and currentSegment stays
\* null, also when calls submitted before the stop complete afterwards.
C30_QuietAfterStop ==
  [][(~isStreaming /\ ~isStreaming')
       => /\ delivered' = delivered
          /\ currentSegment' = NoSegment
          /\ ~(tempoFrames' # tempoFrames /\ chordNotified')]_vars

==========================================================================
